---------------------------- MODULE Spec2Model ----------------------------
(***************************************************************************)
(* A model of the authenticated-request engine of the exchanges            *)
(* repository: the Binance rate-limit dispatch loop (send_req), the        *)
(* BTC-pair cache (a tokio OnceCell filled by get_or_try_init) with        *)
(* concurrent and cancellable callers, and the single-shot dispatchers of  *)
(* the OKX, Bitfinex and Coinbase clients.                                 *)
(*                                                                         *)
(* A caller is one async task running one facade operation.  An action is  *)
(* the code a task runs between two suspension points (.await): the        *)
(* network send, the rate-limit sleep and the wait for the cache permit.   *)
(***************************************************************************)
EXTENDS Integers, Sequences, FiniteSets, TLC

(***************************************************************************)
(* Bounds of the model.                                                    *)
(***************************************************************************)
NumCallers == 2
NumDispatchCallers == 1
MaxClock == 400
MaxRetries == 2
MaxSymbols == 3
MaxPages == 2
MaxErrors == 2
MaxLen == 3
MaxEdits == 2
MaxTrades == 2
MaxMillis == 3

(***************************************************************************)
(* Program constants.                                                      *)
(***************************************************************************)
MAX_WEIGHT_PER_MIN == 6000
DEFAULT_RECV_WINDOW == 5000
WINDOW_MS == 60000
MIN_SLEEP_MS == 200
BTC_TICKER == "BTC"

NoCaller == 0

(***************************************************************************)
(* u32 arithmetic.  A decimal header value is kept as two limbs            *)
(* hi * 2^16 + lo, so that values up to and beyond u32::MAX are            *)
(* represented without leaving the integer range of TLC.                   *)
(***************************************************************************)
Limb == 2^16

Num(hi, lo) == [hi |-> hi, lo |-> lo]

\* The X-MBX-USED-WEIGHT-1M header of a response: absent, bytes that are
\* no visible ASCII (to_str fails), a string that is no decimal number,
\* or a string of decimal digits denoting hi * 2^16 + lo.
Hdr(kind, hi, lo) == [kind |-> kind, hi |-> hi, lo |-> lo]

HAbsent == Hdr("absent", 0, 0)
HOpaque == Hdr("opaque", 0, 0)
HText == Hdr("text", 0, 0)
HDigits(hi, lo) == Hdr("digits", hi, lo)
NoHeader == Hdr("none", 0, 0)

\* str::parse::<u32>: succeeds on decimal digits whose value fits 32 bits.
ParseU32Ok(h) == h.kind = "digits" /\ h.hi < Limb

\* client.rs 161-166: headers().get(..).and_then(to_str).and_then(parse).unwrap_or(0)
used_weight(h) == IF ParseU32Ok(h) THEN Num(h.hi, h.lo) ELSE Num(0, 0)

\* u32::saturating_sub(a, b) for a small a (a < 2^16) and any u32 b.
saturating_sub(a, b) == IF b.hi = 0 /\ b.lo <= a THEN a - b.lo ELSE 0

\* client.rs 168
available(used) == saturating_sub(MAX_WEIGHT_PER_MIN, used)

\* api.rs 74-78: every Spot call declares weight 20.
request_weight(api) == 20

AcceptsStrict(avail, weight) == avail > weight

\* client.rs 170: the accept test of the loop.
Accepts(avail, weight) == avail >= weight

\* client.rs 176
deficit(weight, avail) == weight - avail

\* client.rs 180: (deficit as f64 / MAX as f64 * 60_000.0) as u64.  The f64
\* evaluation is exact for every deficit up to 46 (the first inexact value is
\* 47, which yields 469); a deficit never exceeds the declared weight, 20.
proportional_ms(d) == (d * WINDOW_MS) \div MAX_WEIGHT_PER_MIN

sleep_ms_no_floor(d) == proportional_ms(d)

\* client.rs 183
sleep_ms(d) == IF proportional_ms(d) > MIN_SLEEP_MS THEN proportional_ms(d) ELSE MIN_SLEEP_MS


(***************************************************************************)
(* Data exchanged with the Binance server.                                 *)
(***************************************************************************)
\* response.rs 38-61: the fields of a Symbol the client reads.
Sym(symbol, base, quote) == [symbol |-> symbol, base_asset |-> base, quote_asset |-> quote]

BTCUSDT == Sym("BTCUSDT", "BTC", "USDT")
ETHBTC == Sym("ETHBTC", "ETH", "BTC")
ETHUSDT == Sym("ETHUSDT", "ETH", "USDT")
Symbols == {BTCUSDT, ETHBTC, ETHUSDT}

NoRepeat(s) == \A i, j \in 1..Len(s) : i /= j => s[i] /= s[j]

\* The symbols lists of the exchange information the server may return.
ExchangeInfos ==
    {s \in UNION {[1..n -> Symbols] : n \in 0..MaxSymbols} : NoRepeat(s)}

\* A decoded body: ok is FALSE when the JSON does not decode into T.
Body(ok, val) == [ok |-> ok, val |-> val]
BadBody == Body(FALSE, <<>>)

Bodies(env, api) ==
    IF api = "ExchangeInfo" THEN {BadBody} \cup {Body(TRUE, i) : i \in env.infos}
    ELSE {BadBody} \cup {Body(TRUE, v) : v \in env.trades}

\* What the transport hands back for one send.
Outcome(kind, header, status, body) ==
    [kind |-> kind, header |-> header, status |-> status, body |-> body]

TransportError == Outcome("transport_error", NoHeader, 0, BadBody)

Outcomes(env, api) ==
    {TransportError} \cup
    {Outcome("response", h, s, b) :
        h \in env.headers, s \in env.statuses, b \in Bodies(env, api)}

(***************************************************************************)
(* Results of calls.                                                       *)
(***************************************************************************)
Res(kind, err, val) == [kind |-> kind, err |-> err, val |-> val]
NoResult == Res("none", "", <<>>)
Ok(val) == Res("ok", "", val)
Err(e) == Res("err", e, <<>>)
Cancelled == Res("cancelled", "", <<>>)

\* client.rs 112-118: error_for_status, then json().
handle_http_response(o) ==
    IF ~(o.status \in 200..299) THEN Err("Reqwest:status")
    ELSE IF ~o.body.ok THEN Err("Reqwest:decode")
    ELSE Ok(o.body.val)

(***************************************************************************)
(* State.                                                                  *)
(***************************************************************************)
VARIABLES
    now,        \* the wall clock, in milliseconds
    auth,       \* BinanceClient.auth: "None" or "ApiKeys"
    task,       \* per caller: the position and the locals of its call
    cell,       \* BinanceClient.bitcoin_pairs: the OnceCell's value
    permit,     \* the caller holding the OnceCell's initialisation permit
    hist,       \* per caller: what was observed of its call (history)
    ghost,      \* per client: what was observed of the cache (history)
    coinbase,   \* the result of CoinbaseAppClientBuilder::build
    eval        \* the last decoding: the function, its input and its value

vars == <<now, auth, task, cell, permit, hist, ghost, coinbase, eval>>

\* A RequestBuilder: the endpoint, whether its query is signed, the
\* millisecond timestamp embedded in the signed query, and whether
\* try_clone succeeds on it.
Req(api, signed, timestamp, cloneable) ==
    [api |-> api, signed |-> signed, timestamp |-> timestamp, cloneable |-> cloneable]
NoReq == Req("none", FALSE, 0, TRUE)

\* The locals of one iteration of the send_req loop (client.rs 161-183).
Loc(used, avail, d, ms) ==
    [used_weight |-> used, available |-> avail, deficit |-> d, sleep_ms |-> ms]
NoLoc == Loc(Num(0, 0), 0, 0, 0)

NoneCell == [init |-> FALSE, val |-> <<>>]
SomeCell(v) == [init |-> TRUE, val |-> v]

\* A header-signed request as it is handed to the transport: the method,
\* the path and query of its URL, the timestamp or nonce header, the body,
\* and the text the signature header was computed from.  A text is the
\* sequence of its parts.
Wire(method, path, stamp, body, signed) ==
    [method |-> method, path |-> path, stamp |-> stamp, body |-> body,
     signed |-> signed]
NoWire == Wire("", <<>>, <<>>, <<>>, <<>>)

IdleTask ==
    [pc |-> "idle", op |-> "none", ctx |-> "top", req |-> NoReq, loc |-> NoLoc,
     result |-> NoResult, btc_pairs |-> <<>>, idx |-> 0, output |-> <<>>,
     url |-> [path |-> "", query |-> {}],
     token |-> [kind |-> "none", sub |-> "", uri |-> <<>>, nbf |-> 0, nonce |-> 0],
     wire |-> NoWire]

\* An optional value.
Some(v) == [some |-> TRUE, v |-> v]
None == [some |-> FALSE, v |-> ""]

\* okx response.rs 15-19: an element of data as OkxApiErrorData sees it:
\* whether it decodes as such a record, and its sMsg.
ErrorRecord(s_msg) == [record |-> TRUE, s_msg |-> s_msg]
NotARecord == [record |-> FALSE, s_msg |-> None]

\* The data of an envelope: whether it is a list, its elements, and
\* whether it decodes into the T of the call.
OkxData(list, elems, decodes) == [list |-> list, elems |-> elems, decodes |-> decodes]

\* okx response.rs 8-13: the envelope {code, msg, data}, and whether the
\* text is such an envelope at all.
Envelope(ok, code, msg, data) == [ok |-> ok, code |-> code, msg |-> msg, data |-> data]
NoEnvelope == Envelope(FALSE, "", "", OkxData(FALSE, <<>>, FALSE))

NoHist ==
    [sinceSleep |-> 0, slept |-> FALSE, retries |-> 0, sentAt |-> 0,
     nsent |-> 0, nresp |-> 0, outcome |-> "none", header |-> NoHeader,
     pages |-> <<>>, status |-> 0, envelope |-> NoEnvelope]

\* No clone of the client has been made.
NoClone == [made |-> FALSE, shared |-> FALSE, cell |-> NoneCell]

NoGhost ==
    [computations |-> 0, successes |-> 0, failures |-> 0, fetched |-> <<>>,
     returned |-> {}, clone |-> NoClone, chain |-> 0]

Sat(n, max) == IF n < max THEN n + 1 ELSE max
\* The clock stops at the end of the modelled time.
Tick(t, ms) == IF t + ms <= MaxClock THEN t + ms ELSE t

(***************************************************************************)
(* CoinbaseAppClientBuilder::build.                                        *)
(***************************************************************************)
\* The private keys a caller may configure: a PKCS#8 PEM in the encoding
\* to_pkcs8_pem produces, a PKCS#8 PEM in another layout (other line
\* endings or line width), a SEC1 "EC PRIVATE KEY" PEM, and text that is
\* neither.
KeyKinds == {"pkcs8", "pkcs8_reformatted", "sec1", "malformed"}

from_pkcs8_pem(key) == key \in {"pkcs8", "pkcs8_reformatted"}
from_sec1_pem(key) == key = "sec1"
to_pkcs8_pem(key) == "pkcs8"

format_key_lenient(key) == Ok(key)

\* jwt.rs 174-196
format_key(key) ==
    IF from_pkcs8_pem(key) /\ to_pkcs8_pem(key) = key THEN Ok(key)
    ELSE IF from_sec1_pem(key) THEN Ok(to_pkcs8_pem(key))
    ELSE Err("InvalidPrivateKey")

NoJwt == [enabled |-> FALSE, api_key |-> ""]

\* jwt.rs 36-56
Jwt_new(api_key, api_secret) ==
    LET secret == format_key(api_secret)
    IN  IF secret.kind = "err" THEN secret
        ELSE Ok([enabled |-> TRUE, api_key |-> api_key])

\* auth/mod.rs 10-22
CoinbaseAuth(kind, api_key, secret_key) ==
    [kind |-> kind, api_key |-> api_key, secret_key |-> secret_key]

CoinbaseAuths ==
    {CoinbaseAuth("None", "", "")} \cup {CoinbaseAuth("ApiKeys", "key", k) : k \in KeyKinds}

JwtNeverDisabled(sandbox) == FALSE

\* agent.rs 105-110: no JWT is generated in sandbox mode.
JwtDisabled(sandbox) == sandbox

\* agent.rs 97-117 with 19-35: the JWT generator and the root URL.
SecureHttpClientAgent_new(a, sandbox) ==
    LET jwt == IF a.kind = "None" THEN Ok(NoJwt)
               ELSE IF JwtDisabled(sandbox) THEN Ok(NoJwt)
               ELSE Jwt_new(a.api_key, a.secret_key)
    IN  IF jwt.kind = "err" THEN jwt
        ELSE Ok([jwt |-> jwt.val,
                 host |-> IF sandbox THEN "api-sandbox.coinbase.com"
                          ELSE "api.coinbase.com"])

\* client.rs 30-34 with builder.rs 50-54: the client or the error of build,
\* with the builder's settings.
from_builder(a, sandbox) ==
    [client |-> SecureHttpClientAgent_new(a, sandbox), auth |-> a, sandbox |-> sandbox]

NoEval == [fn |-> "none", input |-> <<>>, value |-> NoResult]

\* The state after BinanceClient::from_builder (client.rs 55-66), with n
\* callers that have not called yet, at time t0.
InitWith(n, t0) ==
    /\ now = t0
    /\ auth \in {"None", "ApiKeys"}
    /\ task = [c \in 1..n |-> IdleTask]
    /\ cell = NoneCell
    /\ permit = NoCaller
    /\ hist = [c \in 1..n |-> NoHist]
    /\ ghost = NoGhost
    /\ coinbase = from_builder(CoinbaseAuth("ApiKeys", "key", "pkcs8"), FALSE)
    /\ eval = NoEval

Callers == DOMAIN task

(***************************************************************************)
(* BinanceClient: the dispatch loop.                                       *)
(***************************************************************************)
\* A call that has returned r: its frame is dropped, its result remains.
Done(t, r) == [IdleTask EXCEPT !.pc = "done", !.op = t.op, !.result = r]

\* client.rs 153-158: the head of the loop.  The builder is cloned and the
\* clone is sent at time clock; a builder that cannot be cloned ends the
\* call with CantCloneRequest.
Attempt(t, h, r, clock) ==
    IF r.cloneable
    THEN [t |-> [t EXCEPT !.pc = "sending", !.req = r, !.loc = NoLoc],
          h |-> [h EXCEPT !.sinceSleep = Sat(@, 2), !.sentAt = clock,
                          !.outcome = "pending", !.header = NoHeader]]
    ELSE [t |-> Done(t, Err("CantCloneRequest")),
          h |-> [h EXCEPT !.outcome = "clone_fail"]]

Decide_on_status(o, weight) ==
    LET used == used_weight(o.header)
        avail == available(used)
        d == IF Accepts(avail, weight) THEN weight ELSE deficit(weight, avail)
    IN  IF Accepts(avail, weight) /\ o.status /= 429
        THEN [accepted |-> TRUE, result |-> handle_http_response(o), loc |-> NoLoc]
        ELSE [accepted |-> FALSE, result |-> NoResult,
              loc |-> Loc(used, avail, d, sleep_ms(d))]

\* client.rs 161-183: what one iteration makes of a response: accept it and
\* decode it, or compute the wait.
Decide(o, weight) ==
    LET used == used_weight(o.header)
        avail == available(used)
        d == deficit(weight, avail)
    IN  IF Accepts(avail, weight)
        THEN [accepted |-> TRUE, result |-> handle_http_response(o), loc |-> NoLoc]
        ELSE [accepted |-> FALSE, result |-> NoResult,
              loc |-> Loc(used, avail, d, sleep_ms(d))]

OnTransportErrorFallback(t) == Done(t, Ok(<<>>))

\* client.rs 158: the ? on send().await.
OnTransportError(t) == Done(t, Err("Reqwest:transport"))

\* The class of an outcome, for the history.
Class(o, dec) ==
    IF o.kind = "transport_error" THEN "transport"
    ELSE IF ~dec.accepted THEN "throttled"
    ELSE IF dec.result.kind = "ok" THEN "ok"
    ELSE IF dec.result.err = "Reqwest:status" THEN "status" ELSE "decode"

\* util.rs build_signed_request: the parameters, recvWindow and the current
\* millisecond timestamp, as one query string.
build_signed_request(params, recv_window, clock) ==
    [params |-> params, recvWindow |-> recv_window, timestamp |-> clock]

\* client.rs 138-147 with 68-91 and 93-110: the query is signed once, the
\* builder is made from the signed URL, and send_req is entered.
get_signed(t, h, api, request, cloneable, clock) ==
    IF auth = "None"
    THEN [t |-> Done(t, Err("ApiKeysNotAvailable")), h |-> h]
    ELSE Attempt(t, h, Req(api, TRUE, request.timestamp, cloneable), clock)

\* client.rs 120-136
get(t, h, api, cloneable, clock) == Attempt(t, h, Req(api, FALSE, 0, cloneable), clock)

RECURSIVE FilterBase(_)
FilterBase(s) ==
    IF s = <<>> THEN <<>>
    ELSE LET rest == FilterBase(Tail(s))
         IN  IF Head(s).base_asset = BTC_TICKER THEN <<Head(s)>> \o rest ELSE rest

\* client.rs 244-248: the filter, in iteration order.
RECURSIVE FilterBtc(_)
FilterBtc(s) ==
    IF s = <<>> THEN <<>>
    ELSE LET rest == FilterBtc(Tail(s))
         IN  IF Head(s).base_asset = BTC_TICKER \/ Head(s).quote_asset = BTC_TICKER
             THEN <<Head(s)>> \o rest ELSE rest

\* client.rs 272-285: the loop of trade_history at pair number i of pairs,
\* with out the map built so far: the next trade_history_for_pair call, or
\* the return of the map.
TradeLoop(t, h, pairs, i, out, cloneable, clock) ==
    IF i > Len(pairs)
    THEN [t |-> Done(t, Ok(out)), h |-> h]
    ELSE get_signed([t EXCEPT !.ctx = "trades", !.btc_pairs = pairs, !.idx = i,
                              !.output = out],
                    [h EXCEPT !.sinceSleep = 0, !.slept = FALSE, !.retries = 0],
                    "MyTrades",
                    build_signed_request(<<pairs[i].symbol>>, DEFAULT_RECV_WINDOW, clock),
                    cloneable, clock)

Append_entry(out, pair, value) == Append(out, [pair |-> pair, trades |-> value])

\* HashMap::insert with Symbol's Eq and Hash (response.rs 63-87), which
\* look at the symbol only: the value of an equal key is replaced and the
\* key is kept.
Insert(out, pair, value) ==
    IF \E k \in 1..Len(out) : out[k].pair.symbol = pair.symbol
    THEN [k \in 1..Len(out) |-> IF out[k].pair.symbol = pair.symbol
                                THEN [out[k] EXCEPT !.trades = value] ELSE out[k]]
    ELSE Append(out, [pair |-> pair, trades |-> value])

\* bitcoin_pairs has returned Ok(v) to the operation of t.
GotPairs(t, h, v, cloneable, clock) ==
    IF t.op = "trade_history"
    THEN TradeLoop(t, h, v, 1, <<>>, cloneable, clock)
    ELSE [t |-> Done(t, Ok(v)), h |-> h]

\* The history of a call that has returned keeps its last outcome only.
Closed(h) ==
    [NoHist EXCEPT !.outcome = h.outcome, !.header = h.header, !.nsent = h.nsent,
                   !.nresp = h.nresp, !.pages = h.pages, !.status = h.status,
                   !.envelope = h.envelope]

Put(c, a) ==
    /\ task' = [task EXCEPT ![c] = a.t]
    /\ hist' = [hist EXCEPT ![c] = IF a.t.pc = "done" THEN Closed(a.h) ELSE a.h]

\* send_req returns r to the frame that awaits it.
Deliver(c, r, h, cloneable) ==
    LET t == task[c] IN
    IF t.ctx = "init"
    THEN IF r.kind = "ok"
         THEN \* client.rs 244-250, then OnceCell::set_value
              LET v == FilterBtc(r.val) IN
              /\ cell' = SomeCell(v)
              /\ permit' = NoCaller
              /\ ghost' = [ghost EXCEPT !.successes = Sat(@, MaxRetries),
                                        !.fetched = r.val,
                                        !.returned = @ \cup {v}]
              /\ Put(c, GotPairs(t, h, v, cloneable, now))
         ELSE \* the ? of client.rs 241: the permit is dropped
              /\ permit' = NoCaller
              /\ ghost' = [ghost EXCEPT !.failures = Sat(@, MaxRetries)]
              /\ Put(c, [t |-> Done(t, r), h |-> h])
              /\ UNCHANGED cell
    ELSE IF t.ctx = "trades" /\ r.kind = "ok"
    THEN /\ Put(c, TradeLoop(t, [h EXCEPT !.pages = Append(@, r.val)], t.btc_pairs,
                             t.idx + 1, Insert(t.output, t.btc_pairs[t.idx], r.val),
                             cloneable, now))
         /\ UNCHANGED <<cell, permit, ghost>>
    ELSE \* the ? of client.rs 279 drops the map with the trades received
         /\ Put(c, [t |-> Done(t, r), h |-> [h EXCEPT !.pages = <<>>]])
         /\ UNCHANGED <<cell, permit, ghost>>

\* The transport completes the send of caller c.
Respond(c, env) ==
    /\ task[c].pc = "sending"
    /\ \E o \in Outcomes(env, task[c].req.api), cl \in env.clone :
         LET t == task[c]
             dec == Decide(o, request_weight(t.req.api))
             h == [hist[c] EXCEPT !.outcome = Class(o, dec), !.header = o.header]
         IN  IF o.kind = "transport_error"
             THEN Deliver(c, OnTransportError(t).result, h, cl)
             ELSE IF dec.accepted
             THEN Deliver(c, dec.result, h, cl)
             ELSE \* client.rs 193: sleep
                  /\ task' = [task EXCEPT ![c] = [t EXCEPT !.pc = "sleeping", !.loc = dec.loc]]
                  /\ hist' = [hist EXCEPT ![c] = [h EXCEPT !.retries = Sat(@, MaxRetries)]]
                  /\ UNCHANGED <<cell, permit, ghost>>
    /\ UNCHANGED <<now, auth, coinbase, eval>>

AfterSleepNoSend(t, h, clock) ==
    [t |-> t, h |-> [h EXCEPT !.sinceSleep = 0, !.slept = TRUE]]

\* client.rs 193-194 and 153-158: the sleep ends and the loop sends again.
AfterSleep(t, h, clock) ==
    Attempt(t, [h EXCEPT !.sinceSleep = 0, !.slept = TRUE], t.req, clock)

Wake(c) ==
    /\ task[c].pc = "sleeping"
    /\ now' = Tick(now, task[c].loc.sleep_ms)
    /\ Put(c, AfterSleep(task[c], hist[c], now'))
    /\ UNCHANGED <<auth, coinbase, eval, cell, permit, ghost>>

KeepOnDrop(c) == permit

\* Dropping the future of get_or_try_init drops the permit it holds.
ReleaseOnDrop(c) == IF permit = c THEN NoCaller ELSE permit

\* The caller drops the future of its call at a suspension point.
Cancel(c) ==
    /\ task[c].pc \in {"sending", "sleeping", "cell_wait"}
    /\ Put(c, [t |-> Done(task[c], Cancelled),
               h |-> [hist[c] EXCEPT !.outcome = IF permit = c THEN "cancelled_computing"
                                                ELSE "cancelled",
                                     !.pages = <<>>]])
    /\ permit' = ReleaseOnDrop(c)
    /\ ghost' = IF permit = c THEN [ghost EXCEPT !.failures = Sat(@, MaxRetries)] ELSE ghost
    /\ UNCHANGED <<now, auth, coinbase, eval, cell>>

\* The caller takes the result of its call; it may call again.
Return(c) ==
    /\ task[c].pc = "done"
    /\ Put(c, [t |-> IdleTask, h |-> NoHist])
    /\ UNCHANGED <<now, auth, coinbase, eval, cell, permit, ghost>>

\* client.rs 198-200
exchange_info(c, env) ==
    /\ task[c].pc = "idle"
    /\ \E cl \in env.clone :
         Put(c, get([task[c] EXCEPT !.op = "exchange_info"], hist[c], "ExchangeInfo", cl, now))
    /\ UNCHANGED <<now, auth, coinbase, eval, cell, permit, ghost>>

\* client.rs 203-210
get_account(c, env) ==
    /\ task[c].pc = "idle"
    /\ \E cl \in env.clone :
         Put(c, get_signed([task[c] EXCEPT !.op = "get_account"], hist[c], "Account",
                           build_signed_request(<<>>, DEFAULT_RECV_WINDOW, now), cl, now))
    /\ UNCHANGED <<now, auth, coinbase, eval, cell, permit, ghost>>

(***************************************************************************)
(* BinanceClient: the BTC-pair cache.                                      *)
(*                                                                         *)
(* tokio's OnceCell::get_or_try_init returns the value when it is set;     *)
(* otherwise it acquires the cell's single permit, runs the closure and,   *)
(* on Ok, stores the value and closes the semaphore, which wakes every     *)
(* waiter; on Err, or when the future is dropped, the permit is released   *)
(* and the cell stays empty.                                               *)
(***************************************************************************)
NeverInitialized == FALSE

\* OnceCell::initialized
initialized == cell.init

PermitAlways == TRUE

\* The semaphore of the cell has its one permit.
PermitFree == permit = NoCaller

\* client.rs 237-253, from the call of get_or_try_init to its first
\* suspension point.
get_or_try_init(c, t, h, cloneable) ==
    IF initialized
    THEN /\ Put(c, GotPairs(t, h, cell.val, cloneable, now))
         /\ ghost' = [ghost EXCEPT !.returned = @ \cup {cell.val}]
         /\ UNCHANGED <<cell, permit>>
    ELSE IF PermitFree
    THEN \* the closure starts: client.rs 241
         LET a == get([t EXCEPT !.ctx = "init"], h, "ExchangeInfo", cloneable, now) IN
         /\ Put(c, a)
         /\ permit' = IF a.t.pc = "sending" THEN c ELSE NoCaller
         /\ ghost' = [ghost EXCEPT !.computations = Sat(@, MaxRetries),
                                   !.failures = IF a.t.pc = "sending" THEN @
                                                ELSE Sat(@, MaxRetries)]
         /\ UNCHANGED cell
    ELSE /\ Put(c, [t |-> [t EXCEPT !.pc = "cell_wait"], h |-> h])
         /\ UNCHANGED <<cell, permit, ghost>>

Arc_clone(c) == [made |-> TRUE, shared |-> TRUE, cell |-> c]

\* client.rs 24-32: derive(Clone) clones the field bitcoin_pairs with
\* OnceCell::clone, which makes a new cell, with its own semaphore, that
\* holds a clone of the value when one is set and is empty otherwise.
OnceCell_clone(c) ==
    [made |-> TRUE, shared |-> FALSE, cell |-> IF c.init THEN SomeCell(c.val) ELSE NoneCell]

\* The cache as the clone of the client sees it.
bitcoin_pairs_of_clone == IF ghost.clone.shared THEN cell ELSE ghost.clone.cell

\* BinanceClient::clone, once.
Clone ==
    /\ ~ghost.clone.made
    /\ ghost' = [ghost EXCEPT !.clone = OnceCell_clone(cell)]
    /\ UNCHANGED <<now, auth, task, cell, permit, hist, coinbase, eval>>

\* client.rs 237-253
bitcoin_pairs(c, env) ==
    /\ task[c].pc = "idle"
    /\ \E cl \in env.clone :
         get_or_try_init(c, [task[c] EXCEPT !.op = "bitcoin_pairs"], hist[c], cl)
    /\ UNCHANGED <<now, auth, coinbase, eval>>

\* client.rs 272-274
trade_history(c, env) ==
    /\ task[c].pc = "idle"
    /\ \E cl \in env.clone :
         get_or_try_init(c, [task[c] EXCEPT !.op = "trade_history"], hist[c], cl)
    /\ UNCHANGED <<now, auth, coinbase, eval>>

\* A waiter of the cell is woken: the permit was released or the cell was set.
CellWake(c, env) ==
    /\ task[c].pc = "cell_wait"
    /\ initialized \/ PermitFree
    /\ \E cl \in env.clone :
         get_or_try_init(c, [task[c] EXCEPT !.pc = "idle"], hist[c], cl)
    /\ UNCHANGED <<now, auth, coinbase, eval>>

(***************************************************************************)
(* OkxClient, BitfinexClient and CoinbaseAppClient: one send per request.  *)
(***************************************************************************)
\* The request is handed to the transport at time clock and the call awaits
\* the answer at position pc.
SendOnce(t, h, pc, api, clock) ==
    [t |-> [t EXCEPT !.pc = pc, !.req = Req(api, TRUE, clock, TRUE)],
     h |-> [h EXCEPT !.nsent = @ + 1, !.sentAt = clock, !.outcome = "pending"]]

\* The ? on a step that precedes the send: signing, headers, URL, token.
FailEarly(t, h, e) ==
    [t |-> Done(t, Err(e)), h |-> [h EXCEPT !.outcome = "presend"]]

\* The call of c ends with r on the answer of class cls.
Finish(c, r, cls) ==
    Put(c, [t |-> Done(task[c], r),
            h |-> [hist[c] EXCEPT !.nresp = @ + 1, !.outcome = cls]])

\* The envelopes the calls of Spec meet.
FewEnvelopes ==
    {NoEnvelope,
     Envelope(TRUE, "0", "", OkxData(TRUE, <<>>, TRUE)),
     Envelope(TRUE, "0", "", OkxData(FALSE, <<>>, FALSE)),
     Envelope(TRUE, "1", "All operations failed",
              OkxData(TRUE, <<ErrorRecord(Some("Parameter ordId error"))>>, FALSE))}

OkxOutcomes(envelopes) ==
    {[kind |-> k, status |-> 0, envelope |-> NoEnvelope] :
        k \in {"transport_error", "text_error"}} \cup
    {[kind |-> "response", status |-> st, envelope |-> e] :
        st \in {200, 404, 500}, e \in envelopes}

OkxApiError(code, message, smg) == Res("err", "OkxApiError", <<code, message, smg>>)

smg_of_first(data) ==
    IF data.list /\ Len(data.elems) > 0 /\ data.elems[1].record /\ data.elems[1].s_msg.some
    THEN data.elems[1].s_msg.v
    ELSE "Unknown error"

\* okx client.rs 141-150: errors is data decoded as Vec<OkxApiErrorData>.
smg(data) ==
    LET errors == IF data.list /\ \A i \in 1..Len(data.elems) : data.elems[i].record
                  THEN Ok([i \in 1..Len(data.elems) |-> data.elems[i].s_msg])
                  ELSE Err("Json")
    IN  IF errors.kind = "ok"
        THEN IF Len(errors.val) > 0 /\ errors.val[1].some
             THEN errors.val[1].v
             ELSE "Unknown error"
        ELSE "Failed to parse error message"

\* okx client.rs 126-175: the match on the status code.
okx_match_status(o) ==
    IF o.status = 200
    THEN IF ~o.envelope.ok THEN Err("SerdePath")
         ELSE IF o.envelope.code = "0"
         THEN IF o.envelope.data.decodes THEN Ok(o.envelope.data.elems) ELSE Err("Json")
         ELSE OkxApiError(o.envelope.code, o.envelope.msg, smg(o.envelope.data))
    ELSE IF o.status = 404 THEN OkxApiError("404", "API not found", "")
    ELSE OkxApiError("status", "body", "")

OkxClass(o) ==
    IF o.kind /= "response" THEN "transport"
    ELSE IF o.status /= 200 THEN "status"
    ELSE IF ~o.envelope.ok THEN "decode"
    ELSE IF o.envelope.code /= "0" THEN "api_error"
    ELSE IF ~o.envelope.data.decodes THEN "decode" ELSE "ok"

\* u64 and Method as Display prints them.
DecimalDigit(d) == <<"0", "1", "2", "3", "4", "5", "6", "7", "8", "9">>[d + 1]
RECURSIVE to_string(_)
to_string(n) ==
    IF n < 10 THEN <<DecimalDigit(n)>> ELSE to_string(n \div 10) \o <<DecimalDigit(n % 10)>>

\* Url::join with a reference that begins with "/": the path and the query
\* of the base are replaced by those of the reference.
join(root_url, reference) == reference

\* okx util.rs 5-7: "%Y-%m-%dT%H:%M:%S.%3fZ" of the instant ms milliseconds
\* after the start of the modelled time: the seconds, a point, the three
\* digits of the milliseconds, and Z.
format_timestamp(ms) ==
    LET f == ms % 1000
    IN  to_string(ms \div 1000) \o
        <<".", DecimalDigit(f \div 100), DecimalDigit((f \div 10) % 10),
          DecimalDigit(f % 10), "Z">>

\* okx client.rs 28-62: Api::url_path and Api::http_method of the calls
\* the public operations make.
okx_url_path(api) ==
    IF api = "DepositHistory" THEN <<"/api/v5/asset/deposit-history", "?ccy=", "BTC">>
    ELSE <<"/api/v5/trade/fills-history", "?instType=", "SPOT">>
okx_http_method(api) == "GET"

generate_signature_of_instant(timestamp, method, path, body) ==
    to_string(timestamp) \o <<method>> \o path \o body

\* okx auth.rs 35-60: the pre-hash payload the HMAC is computed over.
generate_signature(timestamp, method, path, body) ==
    format_timestamp(timestamp) \o <<method>> \o path \o body

\* okx client.rs 89-121: from the call to the await of the send.
send_request(t, h, api, signature_ok, clock) ==
    LET method == okx_http_method(api)
        path == okx_url_path(api)
        body == <<>>
        timestamp == clock
        signature == generate_signature(timestamp, method, path, body)
        url == join(<<"/">>, path)
        sent == SendOnce(t, h, "okx_sending", api, clock)
    IN  IF signature_ok
        THEN [sent EXCEPT !.t.wire = Wire(method, url, format_timestamp(timestamp),
                                          body, signature)]
        ELSE FailEarly(t, h, "AuthenticationError")

\* okx client.rs 203-208
deposit_history(c) ==
    /\ task[c].pc = "idle"
    /\ \E signature_ok \in BOOLEAN :
         Put(c, send_request([task[c] EXCEPT !.op = "deposit_history"], hist[c],
                             "DepositHistory", signature_ok, now))
    /\ UNCHANGED <<now, auth, coinbase, eval, cell, permit, ghost>>

\* okx client.rs 119-175: the send completes; the ? on send and on text,
\* then the match on the status.
OkxRespond(c, envelopes) ==
    /\ task[c].pc = "okx_sending"
    /\ task[c].op = "deposit_history"
    /\ \E o \in OkxOutcomes(envelopes) :
         Put(c, [t |-> Done(task[c], IF o.kind = "response"
                                     THEN okx_match_status(o) ELSE Err("Reqwest")),
                 h |-> [hist[c] EXCEPT !.nresp = @ + 1, !.outcome = OkxClass(o),
                                       !.status = o.status,
                                       !.envelope = o.envelope]])
    /\ UNCHANGED <<now, auth, coinbase, eval, cell, permit, ghost>>

\* What the transport hands back to the Bitfinex and Coinbase clients.
PlainOutcomes(bodies) ==
    {TransportError} \cup
    {Outcome("response", HAbsent, st, b) : st \in {200, 404, 500}, b \in bodies}

PlainClass(o) ==
    IF o.kind = "transport_error" THEN "transport"
    ELSE IF ~(o.status \in 200..299) THEN "status"
    ELSE IF ~o.body.ok THEN "decode" ELSE "ok"

\* bitfinex constant.rs
API_SIGNATURE_PATH == <<"/api/v2/auth/r/">>

\* bitfinex client.rs 27-45: Api::url_path and Api::http_method.
url_path(api) ==
    IF api = "Wallets" THEN <<"/v2/auth/r/wallets">> ELSE <<"/v2/auth/r/trades/hist">>
http_method(api) == "POST"

\* bitfinex client.rs 166-171: the milliseconds of the wall clock.
generate_nonce(clock) == clock

\* bitfinex client.rs 66-105: the bfx-nonce header and the text signed.
build_headers(api, payload, clock) ==
    LET nonce == generate_nonce(clock)
        signature_path == API_SIGNATURE_PATH \o url_path(api) \o to_string(nonce) \o payload
    IN  [nonce |-> to_string(nonce), signed |-> signature_path]

\* bitfinex client.rs 107-129: from the call to the await of the send.  No
\* body is attached to the request.
call_api(t, h, api, headers_ok, clock) ==
    LET url == join(<<"/">>, url_path(api))
        method == http_method(api)
        headers == build_headers(api, <<>>, clock)
        sent == SendOnce(t, h, "bfx_sending", api, clock)
    IN  IF headers_ok
        THEN [sent EXCEPT !.t.wire = Wire(method, url, headers.nonce, <<>>,
                                          headers.signed)]
        ELSE FailEarly(t, h, "InvalidHeaderValue")

\* bitfinex client.rs 134-137
wallets(c) ==
    /\ task[c].pc = "idle"
    /\ \E headers_ok \in BOOLEAN :
         Put(c, call_api([task[c] EXCEPT !.op = "wallets"], hist[c], "Wallets",
                         headers_ok, now))
    /\ UNCHANGED <<now, auth, coinbase, eval, cell, permit, ghost>>

\* bitfinex client.rs 117-128: the ? on send, error_for_status, json.
call_api_result(o) ==
    IF o.kind = "transport_error" THEN Err("Reqwest:transport")
    ELSE IF ~(o.status \in 200..299) THEN Err("Reqwest:status")
    ELSE IF ~o.body.ok THEN Err("Reqwest:decode")
    ELSE Ok(o.body.val)

BitfinexRespond(c) ==
    /\ task[c].pc = "bfx_sending"
    /\ task[c].op = "wallets"
    /\ \E o \in PlainOutcomes({BadBody, Body(TRUE, <<"wallet">>)}) :
         Finish(c, call_api_result(o), PlainClass(o))
    /\ UNCHANGED <<now, auth, coinbase, eval, cell, permit, ghost>>

\* str::starts_with, str::ends_with and str::contains, on a text given as
\* the sequence of its characters.
starts_with(s, p) == Len(p) <= Len(s) /\ SubSeq(s, 1, Len(p)) = p
ends_with(s, p) == Len(p) <= Len(s) /\ SubSeq(s, Len(s) - Len(p) + 1, Len(s)) = p
contains(s, p) == \E i \in 0..(Len(s) - Len(p)) : SubSeq(s, i + 1, i + Len(p)) = p

\* bitfinex constant.rs 8-9
BITFINEX_BTC_TICKER == <<"B", "T", "C">>
TBTC_TICKER == <<"t", "B", "T", "C">>
\* The BTC_TICKER of the okx crate.
OKX_BTC_TICKER == <<"B", "T", "C">>

\* The symbols of the trades a server lists, and the lists.
BitfinexSymbols ==
    {<<"t", "B", "T", "C", "U", "S", "D">>, <<"t", "E", "T", "H", "B", "T", "C">>,
     <<"t", "E", "T", "H", "U", "S", "D">>}
InstrumentIds ==
    {<<"B", "T", "C", "-", "U", "S", "D", "T">>, <<"E", "T", "H", "-", "B", "T", "C">>,
     <<"W", "B", "T", "C", "-", "U", "S", "D", "T">>,
     <<"E", "T", "H", "-", "U", "S", "D", "T">>}
Lists(elems) == UNION {[1..n -> elems] : n \in 0..MaxTrades}

\* bitfinex client.rs 154-160: the filter of trades.
RECURSIVE bitfinex_filter(_)
bitfinex_filter(list) ==
    IF list = <<>> THEN <<>>
    ELSE LET trade == Head(list)
         IN  (IF starts_with(trade.symbol, TBTC_TICKER) \/
                 ends_with(trade.symbol, BITFINEX_BTC_TICKER)
              THEN <<trade>> ELSE <<>>) \o bitfinex_filter(Tail(list))

\* bitfinex client.rs 149-163: the call.
trades(c) ==
    /\ task[c].pc = "idle"
    /\ \E headers_ok \in BOOLEAN :
         Put(c, call_api([task[c] EXCEPT !.op = "trades"], hist[c], "Trades",
                         headers_ok, now))
    /\ UNCHANGED <<now, auth, coinbase, eval, cell, permit, ghost>>

\* bitfinex client.rs 117-162: the answer to the call of trades: the ? on
\* call_api, then the filter.
TradesRespond(c) ==
    /\ task[c].pc = "bfx_sending"
    /\ task[c].op = "trades"
    /\ \E o \in PlainOutcomes({BadBody} \cup
                  {Body(TRUE, [i \in DOMAIN l |-> [symbol |-> l[i]]]) :
                      l \in Lists(BitfinexSymbols)}) :
         LET r == call_api_result(o)
         IN  Put(c, [t |-> Done(task[c], IF r.kind = "ok" THEN Ok(bitfinex_filter(r.val)) ELSE r),
                     h |-> [hist[c] EXCEPT !.nresp = @ + 1, !.outcome = PlainClass(o),
                                           !.pages = IF r.kind = "ok" THEN <<r.val>>
                                                     ELSE <<>>]])
    /\ UNCHANGED <<now, auth, coinbase, eval, cell, permit, ghost>>

\* okx client.rs 226-230: the filter of fills.
RECURSIVE okx_filter(_)
okx_filter(fills) ==
    IF fills = <<>> THEN <<>>
    ELSE LET trade == Head(fills)
         IN  (IF contains(trade.instrument_id, OKX_BTC_TICKER)
              THEN <<trade>> ELSE <<>>) \o okx_filter(Tail(fills))

\* okx client.rs 219-233: the call.
okx_trade_history(c) ==
    /\ task[c].pc = "idle"
    /\ \E signature_ok \in BOOLEAN :
         Put(c, send_request([task[c] EXCEPT !.op = "okx_trade_history"], hist[c],
                             "FillsHistory", signature_ok, now))
    /\ UNCHANGED <<now, auth, coinbase, eval, cell, permit, ghost>>

\* okx client.rs 119-231: the answer to the call of trade_history: the ?
\* on send_request, then the filter.
FillsRespond(c) ==
    /\ task[c].pc = "okx_sending"
    /\ task[c].op = "okx_trade_history"
    /\ \E o \in OkxOutcomes({NoEnvelope} \cup
                  {Envelope(TRUE, "0", "",
                            OkxData(TRUE, [i \in DOMAIN l |-> [instrument_id |-> l[i]]],
                                    TRUE)) : l \in Lists(InstrumentIds)}) :
         LET r == IF o.kind = "response" THEN okx_match_status(o) ELSE Err("Reqwest")
         IN  Put(c, [t |-> Done(task[c], IF r.kind = "ok" THEN Ok(okx_filter(r.val)) ELSE r),
                     h |-> [hist[c] EXCEPT !.nresp = @ + 1, !.outcome = OkxClass(o),
                                           !.pages = IF r.kind = "ok" THEN <<r.val>>
                                                     ELSE <<>>]])
    /\ UNCHANGED <<now, auth, coinbase, eval, cell, permit, ghost>>

\* A millisecond of the wall clock passes.
Elapse ==
    /\ now < MaxMillis
    /\ now' = now + 1
    /\ UNCHANGED <<auth, task, cell, permit, hist, ghost, coinbase, eval>>

\* A URL or a URI reference: its path and the parameters of its query.
Uri(path, query) == [path |-> path, query |-> query]
NoUri == Uri("", {})

\* coinbase agent.rs 37-41: join resolves the resource against the root,
\* then set_query replaces the query of the result.
build_url(resource, query) == Uri(resource.path, query)

NoToken == [kind |-> "none", sub |-> "", uri |-> <<>>, nbf |-> 0, nonce |-> 0]

\* jwt.rs 58-64: "{method} {host}{path}"
build_uri(method, host, url) == <<method, host, url.path>>

\* jwt.rs 113-133 with 66-87 and 152-164: header {alg, kid, nonce}, payload
\* {sub, iss, nbf, exp, uri}, signed.  The nonce is the draw of the RNG.
encode(jwt, uri, clock, draw) ==
    [kind |-> "jwt", sub |-> jwt.api_key, uri |-> uri, nbf |-> clock, nonce |-> draw]

\* agent.rs 122-131
build_token(agent, method, resource, clock, draw) ==
    IF agent.jwt.enabled
    THEN encode(agent.jwt, build_uri(method, agent.host, resource), clock, draw)
    ELSE NoToken

\* coinbase agent.rs 133-144 with 55-85: the URL, the token, the send; the
\* token is attached as bearer_auth when there is one.  The draw of the RNG
\* for the k-th request of a call is written k.
agent_get(t, h, resource, query, token_ok, clock) ==
    LET agent == coinbase.client.val
        url == build_url(resource, query)
        token == build_token(agent, "GET", resource, clock, h.nsent + 1)
    IN  IF agent.jwt.enabled /\ ~token_ok THEN FailEarly(t, h, "BadSignature")
        ELSE LET a == SendOnce(t, h, "cb_sending", t.op, clock)
             IN  [t |-> [a.t EXCEPT !.url = url, !.token = token], h |-> a.h]

Built == coinbase.client.kind = "ok"

\* coinbase client.rs 39-50: accounts up to the await of the first page.
accounts(c) ==
    /\ Built
    /\ task[c].pc = "idle"
    /\ \E token_ok \in BOOLEAN :
         Put(c, agent_get([task[c] EXCEPT !.op = "accounts"], hist[c],
                          Uri("/v2/accounts", {}), {"limit=100"}, token_ok, now))
    /\ UNCHANGED <<now, auth, coinbase, eval, cell, permit, ghost>>

\* coinbase client.rs 73-78: account up to the await of the response.
account(c) ==
    /\ Built
    /\ task[c].pc = "idle"
    /\ \E token_ok \in BOOLEAN :
         Put(c, agent_get([task[c] EXCEPT !.op = "account"], hist[c],
                          Uri("/v2/accounts/id", {}), {}, token_ok, now))
    /\ UNCHANGED <<now, auth, coinbase, eval, cell, permit, ghost>>

\* coinbase client.rs 83-92: transactions up to the await of the first page.
transactions(c) ==
    /\ Built
    /\ task[c].pc = "idle"
    /\ \E token_ok \in BOOLEAN :
         Put(c, agent_get([task[c] EXCEPT !.op = "transactions"], hist[c],
                          Uri("/v2/accounts/id/transactions", {}), {"limit=100"},
                          token_ok, now))
    /\ UNCHANGED <<now, auth, coinbase, eval, cell, permit, ghost>>

\* A decoded CoinbaseResponse: the data, whether pagination is present, and
\* pagination.next_uri.
Page(data, pagination, next_uri) ==
    [data |-> data, pagination |-> pagination, next_uri |-> next_uri]

\* The pages the server may answer with on a request for path; it names a
\* next page on at most MaxPages - 1 pages of a call.
Pages(path, sent, data) ==
    {Page(d, FALSE, NoUri) : d \in data} \cup
    {Page(d, TRUE, n) :
        d \in data,
        n \in {NoUri} \cup
              (IF sent < MaxPages
               THEN {Uri(path, {"limit=100", "starting_after=cursor"})}
               ELSE {})}

extend_last_page(acc, data) == data

\* coinbase client.rs 54 and 97: Vec::extend
extend(acc, data) == acc \o data

\* coinbase client.rs 50-67 and 92-109 (and 75-77 for account): the awaited
\* get ends with the outcome o; the ? on get and on json, the data is
\* appended, and the loop continues with next_uri or the call returns what
\* it has gathered.
Received(c, o, token_ok) ==
    IF PlainClass(o) /= "ok"
    THEN Finish(c, call_api_result(o), PlainClass(o))
    ELSE LET page == o.body.val
             t == [task[c] EXCEPT !.output = extend(@, page.data)]
             h == [hist[c] EXCEPT !.nresp = @ + 1, !.outcome = "page",
                                  !.pages = Append(@, page)]
         IN  IF t.op /= "account" /\ page.pagination /\ page.next_uri /= NoUri
             THEN Put(c, agent_get(t, h, page.next_uri, {"limit=100"}, token_ok, now))
             ELSE Put(c, [t |-> Done(t, Ok(t.output)), h |-> [h EXCEPT !.outcome = "ok"]])

\* A response arrives at a Coinbase call; the server answers with any page.
CoinbaseRespond(c, env) ==
    /\ task[c].pc = "cb_sending"
    /\ \E o \in PlainOutcomes({BadBody} \cup
                              {Body(TRUE, p) :
                                  p \in Pages(task[c].url.path, hist[c].nsent, env.data)}),
          token_ok \in BOOLEAN :
         Received(c, o, token_ok)
    /\ UNCHANGED <<now, auth, coinbase, eval, cell, permit, ghost>>

\* A server that holds a collection of ghost.chain pages and answers by the
\* cursor of the request: the page after the one the cursor names, page one
\* when the request carries no cursor.  Page k names page k + 1 by the
\* cursor k; the last page names none.
Cursor(k) == "starting_after=" \o ToString(k)

PageRequested(url) ==
    IF \E k \in 1..ghost.chain : Cursor(k) \in url.query
    THEN 1 + CHOOSE k \in 1..ghost.chain : Cursor(k) \in url.query
    ELSE 1

ChainPage(path, k) ==
    Page(<<"r" \o ToString(k)>>, TRUE,
         IF k < ghost.chain THEN Uri(path, {"limit=100", Cursor(k)}) ELSE NoUri)

\* A response of that server arrives at a Coinbase call.  The requests of a
\* call that are answered are the first MaxPages.
ChainRespond(c) ==
    /\ task[c].pc = "cb_sending"
    /\ hist[c].nsent <= MaxPages
    /\ \E o \in PlainOutcomes({BadBody,
                               Body(TRUE, ChainPage(task[c].url.path,
                                                    PageRequested(task[c].url)))}),
          token_ok \in BOOLEAN :
         Received(c, o, token_ok)
    /\ UNCHANGED <<now, auth, coinbase, eval, cell, permit, ghost>>

(***************************************************************************)
(* The server's answers and the specifications.                            *)
(***************************************************************************)
\* Used-weight headers: absent, unreadable, not a number, 0, 5980 (the last
\* value that leaves the weight), 2^32 (no u32); and the throttling ones
\* 5981, 5990, 6001 and u32::MAX.
AcceptHeaders ==
    {HAbsent, HOpaque, HText, HDigits(0, 0), HDigits(0, 5980), HDigits(Limb, 0)}
ThrottleHeaders ==
    {HDigits(0, 5981), HDigits(0, 5990), HDigits(0, 6001), HDigits(Limb - 1, Limb - 1)}

RateEnv ==
    [headers |-> AcceptHeaders \cup ThrottleHeaders, statuses |-> {200, 429, 500},
     infos |-> {<<BTCUSDT>>}, clone |-> BOOLEAN, trades |-> {<<>>}]

CacheEnv ==
    [headers |-> {HAbsent, HDigits(0, 5990)}, statuses |-> {200},
     infos |-> ExchangeInfos, clone |-> {TRUE}, trades |-> {<<>>}]

\* The calls on the Binance client that go through send_req directly.
DispatchNext ==
    \E c \in 1..NumDispatchCallers :
        \/ exchange_info(c, RateEnv)
        \/ get_account(c, RateEnv)
        \/ Respond(c, RateEnv)
        \/ Wake(c)
        \/ Cancel(c)
        \/ Return(c)

\* The calls on the other clients.
ExchangesNext ==
    \E c \in 1..NumDispatchCallers :
        \/ deposit_history(c)
        \/ OkxRespond(c, FewEnvelopes)
        \/ wallets(c)
        \/ BitfinexRespond(c)
        \/ accounts(c)
        \/ CoinbaseRespond(c, [data |-> {<<>>, <<"account">>}])

Next == DispatchNext \/ ExchangesNext

Init == InitWith(NumDispatchCallers, 0)

Spec == Init /\ [][Next]_vars

DispatchSpec == Init /\ [][DispatchNext]_vars

\* The Coinbase client holds no state that its calls change: one caller
\* shows all it does.  The builder's settings are any.
OneCaller == {1}

CoinbaseEnv == [data |-> {<<>>, <<"r1", "r2">>, <<"r2">>}]

CoinbaseInit ==
    /\ now = 0
    /\ auth = "None"
    /\ task = [c \in OneCaller |-> IdleTask]
    /\ cell = NoneCell
    /\ permit = NoCaller
    /\ hist = [c \in OneCaller |-> NoHist]
    /\ ghost = NoGhost
    /\ coinbase \in {from_builder(a, sandbox) : a \in CoinbaseAuths, sandbox \in BOOLEAN}
    /\ eval = NoEval

CoinbaseNext ==
    \E c \in OneCaller :
        \/ accounts(c)
        \/ account(c)
        \/ transactions(c)
        \/ CoinbaseRespond(c, CoinbaseEnv)
        \/ Return(c)

CoinbaseSpec == CoinbaseInit /\ [][CoinbaseNext]_vars

\* The Coinbase client against the server that answers by the cursor, for
\* every length of the server's chain of pages.
ChainInit ==
    /\ now = 0
    /\ auth = "None"
    /\ task = [c \in OneCaller |-> IdleTask]
    /\ cell = NoneCell
    /\ permit = NoCaller
    /\ hist = [c \in OneCaller |-> NoHist]
    /\ ghost \in {[NoGhost EXCEPT !.chain = n] : n \in 1..MaxPages}
    /\ coinbase \in {from_builder(a, sandbox) : a \in CoinbaseAuths, sandbox \in BOOLEAN}
    /\ eval = NoEval

ChainNext ==
    \E c \in OneCaller :
        \/ accounts(c)
        \/ transactions(c)
        \/ ChainRespond(c)
        \/ Return(c)

ChainSpec == ChainInit /\ [][ChainNext]_vars

\* The OKX client holds no state either.  The envelopes of an answer: any
\* code and msg, and as data a list of at most MaxErrors elements or
\* something that is not a list.
OkxEnvelopes ==
    LET elements == {ErrorRecord(Some("Parameter ordId error")), ErrorRecord(None),
                     NotARecord}
        datas == {OkxData(TRUE, elems, decodes) :
                      elems \in UNION {[1..n -> elements] : n \in 0..MaxErrors},
                      decodes \in BOOLEAN} \cup
                 {OkxData(FALSE, <<>>, decodes) : decodes \in BOOLEAN}
    IN  {NoEnvelope} \cup
        {Envelope(TRUE, code, msg, data) :
            code \in {"0", "1", "51000"}, msg \in {"", "All operations failed"},
            data \in datas}

OkxInit ==
    /\ now = 0
    /\ auth = "ApiKeys"
    /\ task = [c \in OneCaller |-> IdleTask]
    /\ cell = NoneCell
    /\ permit = NoCaller
    /\ hist = [c \in OneCaller |-> NoHist]
    /\ ghost = NoGhost
    /\ coinbase = from_builder(CoinbaseAuth("None", "", ""), FALSE)
    /\ eval = NoEval

OkxNext ==
    \E c \in OneCaller :
        \/ deposit_history(c)
        \/ OkxRespond(c, OkxEnvelopes)
        \/ Return(c)

OkxSpec == OkxInit /\ [][OkxNext]_vars

\* trade_history called again and again by one caller on a server that
\* never throttles, lists a pair up to twice, and answers myTrades with any
\* of three lists of trades.
TradeEnv ==
    [headers |-> {HAbsent}, statuses |-> {200, 500},
     infos |-> UNION {[1..n -> Symbols] : n \in 0..MaxSymbols - 1}, clone |-> {TRUE},
     trades |-> {<<>>, <<"trade1">>, <<"trade2">>}]

TradeNext ==
    \E c \in OneCaller :
        \/ trade_history(c, TradeEnv)
        \/ Respond(c, TradeEnv)
        \/ Return(c)

TradeInit == InitWith(1, MaxClock)

TradeSpec == TradeInit /\ [][TradeNext]_vars

\* The clients that sign with headers, each shared by two callers, while
\* the wall clock advances.
TwoCallers == {1, 2}

SignedInit ==
    /\ now = 0
    /\ auth = "ApiKeys"
    /\ task = [c \in TwoCallers |-> IdleTask]
    /\ cell = NoneCell
    /\ permit = NoCaller
    /\ hist = [c \in TwoCallers |-> NoHist]
    /\ ghost = NoGhost
    /\ coinbase = from_builder(CoinbaseAuth("None", "", ""), FALSE)
    /\ eval = NoEval

SignedNext ==
    \/ \E c \in TwoCallers :
        \/ wallets(c)
        \/ trades(c)
        \/ BitfinexRespond(c)
        \/ TradesRespond(c)
        \/ deposit_history(c)
        \/ okx_trade_history(c)
        \/ OkxRespond(c, FewEnvelopes)
        \/ FillsRespond(c)
        \/ Return(c)
    \/ Elapse

SignedSpec == SignedInit /\ [][SignedNext]_vars

\* The transport answers every send (the client's timeout ends a send that
\* gets no answer) and the timer of a sleep fires.
FairSpec ==
    /\ DispatchSpec
    /\ \A c \in 1..NumDispatchCallers :
         WF_vars(Respond(c, RateEnv)) /\ WF_vars(Wake(c))

CacheNext ==
    \E c \in 1..NumCallers :
        \/ bitcoin_pairs(c, CacheEnv)
        \/ trade_history(c, CacheEnv)
        \/ CellWake(c, CacheEnv)
        \/ Respond(c, CacheEnv)
        \/ Wake(c)
        \/ Cancel(c)
        \/ Return(c)

\* The cache is observed with the clock at the end of the modelled time.
CacheInit == InitWith(NumCallers, MaxClock)

CacheSpec == CacheInit /\ [][CacheNext]_vars

\* The cache of a client that is cloned at some moment, on a server that
\* answers or fails and never throttles.
CloneEnv ==
    [headers |-> {HAbsent}, statuses |-> {200, 500},
     infos |-> {<<BTCUSDT, ETHUSDT>>, <<ETHBTC>>}, clone |-> {TRUE}, trades |-> {<<>>}]

CloneNext ==
    \/ \E c \in 1..NumCallers :
        \/ bitcoin_pairs(c, CloneEnv)
        \/ CellWake(c, CloneEnv)
        \/ Respond(c, CloneEnv)
        \/ Return(c)
    \/ Clone

CloneSpec == CacheInit /\ [][CloneNext]_vars

(***************************************************************************)
(* The decoders of response bodies.  A text is a sequence of characters;   *)
(* a JSON value is its type and, for a string, its content, for a number,  *)
(* its literal.                                                            *)
(***************************************************************************)
Json(t, s) == [t |-> t, s |-> s]
JNull == Json("null", <<>>)
JString(s) == Json("string", s)
JNumber(s) == Json("number", s)

Digits == {"0", "1", "2", "3", "4", "5", "6", "7", "8", "9"}
DigitOf(c) ==
    CASE c = "0" -> 0 [] c = "1" -> 1 [] c = "2" -> 2 [] c = "3" -> 3 [] c = "4" -> 4
      [] c = "5" -> 5 [] c = "6" -> 6 [] c = "7" -> 7 [] c = "8" -> 8 [] c = "9" -> 9

AllDigits(s) == \A i \in 1..Len(s) : s[i] \in Digits

\* An unsigned decimal as a value: its digits without leading zeros.
RECURSIVE Canonical(_)
Canonical(s) ==
    IF Len(s) > 1 /\ s[1] = "0" THEN Canonical(Tail(s)) ELSE s

\* a <= b for canonical decimals.
RECURSIVE LexLeq(_, _)
LexLeq(a, b) ==
    IF a = <<>> THEN TRUE
    ELSE IF a[1] /= b[1] THEN DigitOf(a[1]) < DigitOf(b[1])
    ELSE LexLeq(Tail(a), Tail(b))

DecLeq(a, b) == Len(a) < Len(b) \/ (Len(a) = Len(b) /\ LexLeq(a, b))

\* u64::MAX, 2^64 - 1 = 18446744073709551615.
U64_MAX ==
    <<"1", "8", "4", "4", "6", "7", "4", "4", "0", "7",
      "3", "7", "0", "9", "5", "5", "1", "6", "1", "5">>

\* core::num, <u64 as FromStr>::from_str: an empty text, a lone sign, a
\* character that is no digit and a value above u64::MAX are errors; a
\* leading + is skipped, a - is not a digit of an unsigned type.
from_str_u64_no_plus(s) ==
    IF s = <<>> \/ ~AllDigits(s) THEN Err("ParseIntError")
    ELSE IF ~DecLeq(Canonical(s), U64_MAX) THEN Err("ParseIntError")
    ELSE Ok(Canonical(s))

from_str_u64(s) ==
    LET digits == IF s /= <<>> /\ s[1] = "+" /\ Len(s) > 1 THEN Tail(s) ELSE s
    IN  IF digits = <<>> \/ ~AllDigits(digits) THEN Err("ParseIntError")
        ELSE IF ~DecLeq(Canonical(digits), U64_MAX) THEN Err("ParseIntError")
        ELSE Ok(Canonical(digits))

\* serde_json: a number literal is handed to a u64 visitor as u64 only when
\* it is an integer without sign, fraction or exponent that fits 64 bits.
number_as_u64(lit) ==
    IF lit /= <<>> /\ AllDigits(lit) /\ DecLeq(Canonical(lit), U64_MAX)
    THEN Ok(Canonical(lit))
    ELSE Err("Json")

\* deser.rs 5-10: the untagged enum: a JSON string is String, a JSON number
\* that is a u64 is Number, anything else matches no variant.
StringOrNumber(json) ==
    IF json.t = "string" THEN Ok([variant |-> "String", value |-> json.s])
    ELSE IF json.t = "number" /\ number_as_u64(json.s).kind = "ok"
    THEN Ok([variant |-> "Number", value |-> number_as_u64(json.s).val])
    ELSE Err("Json")

\* deser.rs 21-30
deserialize_string_or_number_to_u64(json) ==
    LET v == StringOrNumber(json)
    IN  IF v.kind = "err" THEN v
        ELSE IF v.val.variant = "String"
        THEN LET n == from_str_u64(v.val.value)
             IN  IF n.kind = "err" THEN Err("Json") ELSE n
        ELSE Ok(v.val.value)

\* A float as a value: its class, its sign, and for a finite one the
\* decimal digits * 10^exp it is the nearest double of, the digits without
\* leading or trailing zeros.  The texts of the model are short: none
\* reaches the exponent at which a double overflows.
Float(class, neg, digits, exp) == [class |-> class, neg |-> neg, digits |-> digits, exp |-> exp]

RECURSIVE DropTrailingZeros(_)
DropTrailingZeros(s) ==
    IF s /= <<>> /\ s[Len(s)] = "0" THEN DropTrailingZeros(SubSeq(s, 1, Len(s) - 1)) ELSE s

RECURSIVE DropLeadingZeros(_)
DropLeadingZeros(s) ==
    IF s /= <<>> /\ s[1] = "0" THEN DropLeadingZeros(Tail(s)) ELSE s

Finite(neg, digits, exp) ==
    LET lead == DropLeadingZeros(digits)
        sig == DropTrailingZeros(lead)
    IN  IF sig = <<>> THEN Float("finite", neg, <<>>, 0)
        ELSE Float("finite", neg, sig, exp + (Len(lead) - Len(sig)))

RECURSIVE NatOf(_)
NatOf(s) == IF s = <<>> THEN 0 ELSE 10 * NatOf(SubSeq(s, 1, Len(s) - 1)) + DigitOf(s[Len(s)])

ToLower(s) ==
    [i \in 1..Len(s) |->
        CASE s[i] = "N" -> "n" [] s[i] = "A" -> "a" [] s[i] = "I" -> "i" [] s[i] = "F" -> "f"
          [] s[i] = "T" -> "t" [] s[i] = "Y" -> "y" [] s[i] = "E" -> "e" [] OTHER -> s[i]]

\* The first position of one of the characters cs in s, or Len(s) + 1.
IndexOf(s, cs) ==
    IF \E i \in 1..Len(s) : s[i] \in cs
    THEN CHOOSE i \in 1..Len(s) : s[i] \in cs /\ \A j \in 1..(i - 1) : s[j] \notin cs
    ELSE Len(s) + 1

\* core::num::dec2flt, parse_number: digits, an optional point and digits,
\* at least one digit in all, then an optional exponent e, sign, digits.
parse_number(s, neg) ==
    LET e == IndexOf(s, {"e", "E"})
        mantissa == SubSeq(s, 1, e - 1)
        p == IndexOf(mantissa, {"."})
        int == SubSeq(mantissa, 1, p - 1)
        frac == SubSeq(mantissa, p + 1, Len(mantissa))
        scientific == SubSeq(s, e + 1, Len(s))
        exp_neg == scientific /= <<>> /\ scientific[1] = "-"
        exp_digits == IF scientific /= <<>> /\ scientific[1] \in {"+", "-"}
                      THEN Tail(scientific) ELSE scientific
        exponent == IF e > Len(s) THEN 0
                    ELSE IF exp_neg THEN 0 - NatOf(exp_digits) ELSE NatOf(exp_digits)
    IN  IF /\ AllDigits(int) /\ AllDigits(frac)
           /\ Len(int) + Len(frac) > 0
           /\ ((e <= Len(s)) => (exp_digits /= <<>> /\ AllDigits(exp_digits)))
        THEN Ok(Finite(neg, int \o frac, exponent - Len(frac)))
        ELSE Err("ParseFloatError")

\* core::num::dec2flt, parse_inf_nan: the words inf, infinity and nan in
\* any case.
parse_inf_nan(s, neg) ==
    IF ToLower(s) \in {<<"i", "n", "f">>, <<"i", "n", "f", "i", "n", "i", "t", "y">>}
    THEN Ok(Float("inf", neg, <<>>, 0))
    ELSE IF ToLower(s) = <<"n", "a", "n">> THEN Ok(Float("nan", neg, <<>>, 0))
    ELSE Err("ParseFloatError")

\* core::num::dec2flt, <f64 as FromStr>::from_str: an optional sign, then
\* a number, or else one of the words.
from_str_f64(s) ==
    LET signed == s /= <<>> /\ s[1] \in {"+", "-"}
        neg == s /= <<>> /\ s[1] = "-"
        rest == IF signed THEN Tail(s) ELSE s
        num == parse_number(rest, neg)
    IN  IF rest = <<>> THEN Err("ParseFloatError")
        ELSE IF num.kind = "ok" THEN num
        ELSE parse_inf_nan(rest, neg)

\* deser.rs 13-19: String::deserialize takes a JSON string only.
deserialize_string_to_f64(json) ==
    IF json.t /= "string" THEN Err("Json")
    ELSE LET v == from_str_f64(json.s)
         IN  IF v.kind = "err" THEN Err("Json") ELSE v

\* The texts of at most n characters of cs.
Texts(cs, n) == UNION {[1..k -> cs] : k \in 0..n}

\* The JSON values that are neither a string nor a number.
\* null, true, [] and {}.
OtherJson == {JNull, Json("bool", <<"t">>), Json("array", <<>>), Json("object", <<>>)}

U64_MAX_PLUS_1 ==
    <<"1", "8", "4", "4", "6", "7", "4", "4", "0", "7",
      "3", "7", "0", "9", "5", "5", "1", "6", "1", "6">>
Timestamp == <<"1", "6", "7", "4", "0", "3", "8", "7", "0", "5", "0", "0", "0">>

U64Texts ==
    Texts({"0", "1", "9", "+", "-"}, MaxLen) \cup
    {U64_MAX, U64_MAX_PLUS_1, <<"0">> \o U64_MAX, <<"+">> \o U64_MAX, Timestamp,
     <<"1", ".", "0">>, <<" ", "1">>, <<"1", "e", "3">>, <<"a", "b", "c">>}

\* Literals of JSON numbers.
NumberLiterals ==
    {<<"0">>, <<"1">>, <<"1", "9">>, <<"-", "1">>, <<"1", ".", "5">>, <<"1", "e", "3">>,
     <<"2", "0", "0">>, U64_MAX, U64_MAX_PLUS_1, Timestamp}

U64Inputs ==
    {JString(s) : s \in U64Texts} \cup {JNumber(s) : s \in NumberLiterals} \cup OtherJson

Amount == <<"4", "7", "2", "3", "8", "4", "6", ".", "8", "9", "2", "0", "8", "1", "2", "9">>

F64Texts ==
    Texts({"0", "1", ".", "-", "+", "e", "n", "a"}, MaxLen) \cup
    {Amount, Timestamp, <<"i", "n", "f">>, <<"N", "a", "N">>, <<"-", "i", "n", "f">>,
     <<"I", "n", "f", "i", "n", "i", "t", "y">>, <<"a", "b", "c">>, <<" ", "1">>,
     <<"0", ".", "0", "0", "0", "0", "7">>, <<"1", "E", "-", "2">>}

F64Inputs ==
    {JString(s) : s \in F64Texts} \cup {JNumber(s) : s \in NumberLiterals} \cup OtherJson

\* A decoder applied to an input, and the variables a decoder leaves
\* alone: all those of the clients.
Applied(fn, input, value) == [fn |-> fn, input |-> input, value |-> value]
clients == <<now, auth, task, cell, permit, hist, ghost, coinbase>>

DecodeF64 ==
    /\ eval = NoEval
    /\ \E json \in F64Inputs :
         eval' = Applied("deserialize_string_to_f64", json, deserialize_string_to_f64(json))
    /\ UNCHANGED clients

DecodeU64 ==
    /\ eval = NoEval
    /\ \E json \in U64Inputs :
         eval' = Applied("deserialize_string_or_number_to_u64", json,
                         deserialize_string_or_number_to_u64(json))
    /\ UNCHANGED clients

\* A field of a JSON object: whether the key is there, and its value.
Field(present, json) == [present |-> present, json |-> json]
Absent == Field(FALSE, JNull)
Present(json) == Field(TRUE, json)

\* okx response.rs 39-69: the codes of DepositStatus.
DepositStatus ==
    (<<"0">> :> "WaitingForConfirmation") @@
    (<<"1">> :> "DepositCredited") @@
    (<<"2">> :> "DepositSuccessful") @@
    (<<"8">> :> "PendingDueToTemporaryDepositSuspension") @@
    (<<"1", "1">> :> "MatchAddressBlacklist") @@
    (<<"1", "2">> :> "AccountOrDepositIsFrozen") @@
    (<<"1", "3">> :> "SubAccountDepositInterception") @@
    (<<"1", "4">> :> "KycLimit") @@
    (<<"1", "7">> :> "PendingTravelRuleVendor")

\* okx response.rs 71-120: the codes of WithdrawalStatus, aliases included.
WithdrawalStatus ==
    (<<"0">> :> "WaitingWithdrawal") @@
    (<<"4">> :> "WaitingManualReview") @@
    (<<"5">> :> "WaitingManualReview") @@
    (<<"6">> :> "WaitingManualReview") @@
    (<<"8">> :> "WaitingManualReview") @@
    (<<"9">> :> "WaitingManualReview") @@
    (<<"1", "2">> :> "WaitingManualReview") @@
    (<<"7">> :> "Approved") @@
    (<<"1">> :> "Withdrawing") @@
    (<<"1", "0">> :> "WaitingTransfer") @@
    (<<"1", "5">> :> "PendingTransactionValidation") @@
    (<<"1", "6">> :> "RegulatoryDelay") @@
    (<<"-", "3">> :> "Canceling") @@
    (<<"-", "2">> :> "Canceled") @@
    (<<"-", "1">> :> "Failed") @@
    (<<"2">> :> "WithdrawalSuccessful") @@
    (<<"1", "7">> :> "PendingTravelRuleVendor") @@
    (<<"1", "9">> :> "InsufficientHotWalletBalance")

\* serde_json::from_value into an enum of unit variants: a string that is
\* the name or an alias of a variant.  (The object and the array of the
\* inputs are empty.)
from_value_enum(variants, json) ==
    IF json.t = "string" /\ json.s \in DOMAIN variants
    THEN Ok(variants[json.s])
    ELSE Err("Json")

deserialize_enum_strictly(variants, field) ==
    IF ~field.present \/ field.json = JNull THEN Ok(None)
    ELSE LET v == from_value_enum(variants, field.json)
         IN  IF v.kind = "ok" THEN Ok(Some(v.val)) ELSE v

\* okx response.rs 122-129, with the serde(default) of the field: a key
\* that is absent gives the default None, null gives None, and any other
\* value gives from_value(value).ok().
deserialize_optional_enum(variants, field) ==
    IF ~field.present \/ field.json = JNull THEN Ok(None)
    ELSE LET v == from_value_enum(variants, field.json)
         IN  IF v.kind = "ok" THEN Ok(Some(v.val)) ELSE Ok(None)

\* A field of type String: the key must be there with a JSON string.
deserialize_string(field) ==
    IF field.present /\ field.json.t = "string" THEN Ok(field.json.s) ELSE Err("Json")

\* A field without serde(default): the key must be there.
required(field, value) == IF field.present THEN value ELSE Err("Json")

\* okx response.rs 131-154: the derived Deserialize of DepositTransaction.
DepositTransaction(obj) ==
    LET id == deserialize_string(obj.depId)
        currency == deserialize_string(obj.ccy)
        amount == required(obj.amt, deserialize_string_to_f64(obj.amt.json))
        state == deserialize_optional_enum(DepositStatus, obj.state)
        tx_id == deserialize_string(obj.txId)
        timestamp == required(obj.ts, deserialize_string_or_number_to_u64(obj.ts.json))
    IN  IF "err" \in {id.kind, currency.kind, amount.kind, state.kind, tx_id.kind,
                       timestamp.kind}
        THEN Err("Json")
        ELSE Ok([id |-> id.val, currency |-> currency.val, amount |-> amount.val,
                 fee |-> None, state |-> state.val, tx_id |-> tx_id.val,
                 timestamp |-> timestamp.val])

\* okx response.rs 156-182: the derived Deserialize of
\* WithdrawalTransaction.
WithdrawalTransaction(obj) ==
    LET id == deserialize_string(obj.wdId)
        currency == deserialize_string(obj.ccy)
        amount == required(obj.amt, deserialize_string_to_f64(obj.amt.json))
        fee == required(obj.fee, deserialize_string_to_f64(obj.fee.json))
        state == deserialize_optional_enum(WithdrawalStatus, obj.state)
        tx_id == deserialize_string(obj.txId)
        timestamp == required(obj.ts, deserialize_string_or_number_to_u64(obj.ts.json))
    IN  IF "err" \in {id.kind, currency.kind, amount.kind, fee.kind, state.kind,
                       tx_id.kind, timestamp.kind}
        THEN Err("Json")
        ELSE Ok([id |-> id.val, currency |-> currency.val, amount |-> amount.val,
                 fee |-> Some(fee.val), state |-> state.val, tx_id |-> tx_id.val,
                 timestamp |-> timestamp.val])

\* The values of the key state: every code of the two enums, codes of
\* neither, and values that are no string.
StateFields ==
    {Absent} \cup
    {Present(JString(s)) : s \in DOMAIN DepositStatus \cup DOMAIN WithdrawalStatus} \cup
    {Present(JString(s)) : s \in {<<"9", "9", "9">>, <<>>, <<"0", "2">>, <<"3">>}} \cup
    {Present(j) : j \in {JNumber(<<"2">>)} \cup OtherJson}

DepositObjects ==
    [depId : {Present(JString(<<"8", "8">>)), Present(JNull)},
     ccy : {Present(JString(<<"B", "T", "C">>))},
     amt : {Present(JString(<<"1">>)), Present(JString(<<"a", "b", "c">>)), Absent},
     state : StateFields,
     txId : {Present(JString(<<"f", "e", "e">>)), Absent},
     ts : {Present(JString(Timestamp)), Present(JNumber(Timestamp)),
           Present(JString(<<"a", "b", "c">>))}]

WithdrawalObjects ==
    [wdId : {Present(JString(<<"8", "8">>)), Present(JNull)},
     ccy : {Present(JString(<<"B", "T", "C">>))},
     amt : {Present(JString(<<"0", ".", "0", "2">>)), Present(JNumber(<<"1">>))},
     fee : {Present(JString(<<"0", ".", "0", "0", "0", "0", "7">>)), Absent},
     state : StateFields,
     txId : {Present(JString(<<"f", "e", "e">>))},
     ts : {Present(JString(Timestamp)), Present(JNumber(Timestamp)),
           Present(JNumber(<<"-", "1">>))}]

DecodeDepositTransaction ==
    /\ eval = NoEval
    /\ \E obj \in DepositObjects :
         eval' = Applied("DepositTransaction", obj, DepositTransaction(obj))
    /\ UNCHANGED clients

DecodeWithdrawalTransaction ==
    /\ eval = NoEval
    /\ \E obj \in WithdrawalObjects :
         eval' = Applied("WithdrawalTransaction", obj, WithdrawalTransaction(obj))
    /\ UNCHANGED clients

\* serde_json: a number literal handed to an f64 visitor: every number is
\* taken, an integer as the float of its value.
number_as_f64(json) ==
    IF json.t = "number" THEN from_str_f64(json.s) ELSE Err("Json")

\* serde_json: an i8 visitor takes an integer literal within -128..127.
number_as_i8(json) ==
    LET neg == json.s /= <<>> /\ json.s[1] = "-"
        digits == IF neg THEN Tail(json.s) ELSE json.s
        n == IF neg THEN 0 - NatOf(digits) ELSE NatOf(digits)
    IN  IF /\ json.t = "number" /\ digits /= <<>> /\ AllDigits(digits)
           /\ Len(digits) <= 3 /\ n \in (0 - 128)..127
        THEN Ok(n)
        ELSE Err("Json")

slot_u64(json) == IF json.t = "number" THEN number_as_u64(json.s) ELSE Err("Json")
slot_string(json) == IF json.t = "string" THEN Ok(json.s) ELSE Err("Json")

\* Option<T>: null is None, anything else is decoded as T, here to v.
slot_option(json, v) ==
    IF json = JNull THEN Ok(None)
    ELSE IF v.kind = "ok" THEN Ok(Some(v.val)) ELSE v

\* Option<Value>: any JSON value.
slot_value(json) == Ok(json)

is_maker_nonzero(maker) == maker /= 0

\* bitfinex response.rs 174: is_maker: arr.8 == 1
is_maker(maker) == maker = 1

\* bitfinex response.rs 163-196: TradeArray, a sequence of exactly twelve
\* elements, and From<TradeArray> for Trade.
Trade(arr) ==
    IF Len(arr) /= 12 THEN Err("Json")
    ELSE LET a0 == slot_u64(arr[1])
             a1 == slot_string(arr[2])
             a2 == slot_u64(arr[3])
             a3 == slot_u64(arr[4])
             a4 == number_as_f64(arr[5])
             a5 == number_as_f64(arr[6])
             a6 == slot_string(arr[7])
             a7 == number_as_f64(arr[8])
             a8 == number_as_i8(arr[9])
             a9 == number_as_f64(arr[10])
             a10 == slot_string(arr[11])
             a11 == slot_option(arr[12], slot_u64(arr[12]))
         IN  IF "err" \in {a0.kind, a1.kind, a2.kind, a3.kind, a4.kind, a5.kind, a6.kind,
                           a7.kind, a8.kind, a9.kind, a10.kind, a11.kind}
             THEN Err("Json")
             ELSE Ok([id |-> a0.val, symbol |-> a1.val, timestamp |-> a2.val,
                      order_id |-> a3.val, amount |-> a4.val, price |-> a5.val,
                      order_type |-> a6.val, order_price |-> a7.val,
                      is_maker |-> is_maker(a8.val), fee |-> a9.val,
                      fee_currency |-> a10.val, cid |-> a11.val])

\* bitfinex response.rs 85-129: MovementArray, a sequence of exactly
\* twenty-two elements, and From<MovementArray> for Movement.
Movement(arr) ==
    IF Len(arr) /= 22 THEN Err("Json")
    ELSE LET a0 == slot_u64(arr[1])
             a1 == slot_string(arr[2])
             a2 == slot_string(arr[3])
             a3 == slot_value(arr[4])
             a4 == slot_value(arr[5])
             a5 == slot_u64(arr[6])
             a6 == slot_u64(arr[7])
             a7 == slot_value(arr[8])
             a8 == slot_value(arr[9])
             a9 == slot_string(arr[10])
             a10 == slot_value(arr[11])
             a11 == slot_value(arr[12])
             a12 == number_as_f64(arr[13])
             a13 == number_as_f64(arr[14])
             a14 == slot_value(arr[15])
             a15 == slot_value(arr[16])
             a16 == slot_string(arr[17])
             a17 == slot_option(arr[18], slot_string(arr[18]))
             a18 == slot_value(arr[19])
             a19 == slot_value(arr[20])
             a20 == slot_string(arr[21])
             a21 == slot_option(arr[22], slot_string(arr[22]))
         IN  IF "err" \in {a0.kind, a1.kind, a2.kind, a3.kind, a4.kind, a5.kind, a6.kind,
                           a7.kind, a8.kind, a9.kind, a10.kind, a11.kind, a12.kind,
                           a13.kind, a14.kind, a15.kind, a16.kind, a17.kind, a18.kind,
                           a19.kind, a20.kind, a21.kind}
             THEN Err("Json")
             ELSE Ok([id |-> a0.val, currency |-> a1.val, currency_name |-> a2.val,
                      mts_started |-> a5.val, mts_updated |-> a6.val, status |-> a9.val,
                      amount |-> a12.val, fees |-> a13.val,
                      destination_address |-> a16.val, payment_id |-> a17.val,
                      transaction_id |-> a20.val, withdraw_transaction_note |-> a21.val])

\* The arrays that differ from base in at most k slots, the other values
\* of a slot taken from alts.
RECURSIVE Edited(_, _, _)
Edited(base, alts, k) ==
    IF k = 0 THEN {base}
    ELSE LET fewer == Edited(base, alts, k - 1)
         IN  fewer \cup {[a EXCEPT ![i] = v] : a \in fewer, i \in 1..Len(base), v \in alts}

\* bitfinex response.rs 291-326: the array of the test of Trade, its texts
\* shortened.
TradeBase ==
    <<JNumber(<<"4", "0", "2">>), JString(<<"t", "B", "T", "C">>), JNumber(Timestamp),
      JNumber(<<"3", "4", "9">>), JNumber(<<"-", "0", ".", "2">>),
      JNumber(<<"1", "5", "3", ".", "5", "7">>), JString(<<"M", "K", "T">>),
      JNumber(<<"0", ".", "0">>), JNumber(<<"-", "1">>),
      JNumber(<<"-", "0", ".", "0", "6">>), JString(<<"U", "S", "D">>), JNumber(<<"1", "2", "3", "4">>)>>

TradeArrays ==
    Edited(TradeBase,
           {JNull, JNumber(<<"0">>), JNumber(<<"1">>), JNumber(<<"-", "1">>),
            JNumber(<<"1", ".", "5">>), JString(<<"U", "S", "D">>)},
           MaxEdits) \cup
    {SubSeq(TradeBase, 1, 11), TradeBase \o <<JNull>>,
     [TradeBase EXCEPT ![9] = JNumber(<<"2", "0", "0">>)],
     [TradeBase EXCEPT ![9] = JNumber(<<"1", "2", "7">>)]}

\* bitfinex response.rs 243-288: the array of the test of Movement,
\* its texts shortened.
MovementBase ==
    <<JNumber(<<"1", "3", "2">>), JString(<<"B", "T", "C">>), JString(<<"B", "I", "T">>), JNull, JNull,
      JNumber(Timestamp), JNumber(Timestamp), JNull, JNull, JString(<<"C", "A", "N">>),
      JNull, JNull, JNumber(<<"-", "0", ".", "2", "4">>),
      JNumber(<<"-", "0", ".", "0", "0", "1">>), JNull, JNull, JString(<<"D", "S", "T">>),
      JNull, JNull, JNull, JString(<<"f", "e", "e">>), JString(<<"p", "i", "z", "z", "a">>)>>

MovementArrays ==
    Edited(MovementBase,
           {JNull, JNumber(<<"1">>), JString(<<"U", "S", "D">>), Json("object", <<>>)},
           MaxEdits) \cup
    {SubSeq(MovementBase, 1, 21), MovementBase \o <<JNull>>}

DecodeTrade ==
    /\ eval = NoEval
    /\ \E arr \in TradeArrays : eval' = Applied("Trade", arr, Trade(arr))
    /\ UNCHANGED clients

DecodeMovement ==
    /\ eval = NoEval
    /\ \E arr \in MovementArrays : eval' = Applied("Movement", arr, Movement(arr))
    /\ UNCHANGED clients

\* A credential of one of the four types: BinanceAuth, BitfinexAuth,
\* CoinbaseAuth (None or ApiKeys) and OkxApiCredentials (with a passphrase).
Credential(type, variant, api_key, secret, passphrase) ==
    [type |-> type, variant |-> variant, api_key |-> api_key, secret |-> secret,
     passphrase |-> passphrase]

Credentials(type) ==
    LET none == IF type \in {"BinanceAuth", "CoinbaseAuth"}
                THEN {Credential(type, "None", "", "", "")} ELSE {}
        secrets == IF type = "CoinbaseAuth" THEN {"pkcs8", "sec1"} ELSE {"s1", "s2"}
        phrases == IF type = "OkxApiCredentials" THEN {"p1", "p2"} ELSE {""}
    IN  none \cup {Credential(type, "ApiKeys", k, s, p) :
                      k \in {"k1", "k2"}, s \in secrets, p \in phrases}

CredentialTypes == {"BinanceAuth", "BitfinexAuth", "CoinbaseAuth", "OkxApiCredentials"}

\* What derive(Debug) would print: the variant and every field.
fmt_derived(a) == <<a.type, a.variant, a.api_key, a.secret, a.passphrase>>

\* binance auth.rs 22-26, bitfinex auth.rs 24-28, coinbase auth/mod.rs
\* 24-28, okx auth.rs 28-32: debug_struct(name).finish(), no field.
fmt_auth(a) ==
    IF a.type = "BinanceAuth" THEN <<"Auth">> ELSE <<a.type>>

\* The Debug output of the client built from a credential: binance
\* client.rs 34-40 prints the host only; OkxClient (okx client.rs 65-74)
\* and BitfinexClient (bitfinex client.rs 42-50) derive it over root_url,
\* client and the credential; CoinbaseAppClient, SecureHttpClientAgent,
\* Jwt (jwt.rs 24-33) and HttpClientAgent derive it, and Jwt holds the
\* api_key as a String beside the key pair and the RNG.
fmt_client(a, sandbox) ==
    IF a.type = "BinanceAuth" THEN <<"BinanceClient", "host", "api.binance.com">>
    ELSE IF a.type = "OkxApiCredentials"
    THEN <<"OkxClient", "root_url", "www.okx.com", "client", "Client", "credentials">>
             \o fmt_auth(a)
    ELSE IF a.type = "BitfinexAuth"
    THEN <<"BitfinexClient", "root_url", "api.bitfinex.com", "client", "Client", "auth">>
             \o fmt_auth(a)
    ELSE LET agent == SecureHttpClientAgent_new(
                          CoinbaseAuth(a.variant, a.api_key, a.secret), sandbox).val
         IN  <<"CoinbaseAppClient", "client", "SecureHttpClientAgent", "jwt">>
                 \o (IF agent.jwt.enabled
                     THEN <<"Some", "Jwt", "api_key", agent.jwt.api_key,
                            "signing_key", "EcdsaKeyPair", "rng", "SystemRandom">>
                     ELSE <<"None">>)
                 \o <<"base", "HttpClientAgent", "root_url", agent.host, "client", "Client">>

\* Two credentials of one type are formatted.
DebugAuth ==
    /\ eval = NoEval
    /\ \E type \in CredentialTypes : \E a \in Credentials(type), b \in Credentials(type) :
         eval' = Applied("fmt_auth", <<a, b>>, <<fmt_auth(a), fmt_auth(b)>>)
    /\ UNCHANGED clients

\* Two clients that differ in the credential only are formatted.
DebugClient ==
    /\ eval = NoEval
    /\ \E type \in CredentialTypes, sandbox \in BOOLEAN :
         \E a \in Credentials(type), b \in Credentials(type) :
           /\ (type /= "CoinbaseAuth") => ~sandbox
           /\ eval' = Applied("fmt_client", <<a, b, sandbox>>,
                              <<fmt_client(a, sandbox), fmt_client(b, sandbox)>>)
    /\ UNCHANGED clients
(***************************************************************************)
(* BinanceClient::sign_request.                                            *)
(***************************************************************************)
\* The characters of a text as one string.
RECURSIVE Str(_)
Str(s) == IF s = <<>> THEN "" ELSE Head(s) \o Str(Tail(s))

\* binance client.rs 71-77: Hmac<Sha256> keyed with the secret, updated
\* with the bytes given, finalized and hex-encoded.  The digest is written
\* as a text that names its key and its input: equal digests have come
\* from equal keys and equal inputs.
hex_hmac(secret_key, bytes) == "hmac(" \o secret_key \o "," \o Str(bytes) \o ")"

\* Url::set_query: tabs and newlines are dropped and the characters of the
\* query percent-encode set are encoded; every other character is kept.
RECURSIVE set_query(_)
set_query(query) ==
    IF query = <<>> THEN <<>>
    ELSE LET c == Head(query)
         IN  (IF c \in {"\t", "\n"} THEN <<>>
              ELSE IF c = " " THEN <<"%", "2", "0">>
              ELSE IF c = "#" THEN <<"%", "2", "3">>
              ELSE IF c = "<" THEN <<"%", "3", "C">>
              ELSE IF c = ">" THEN <<"%", "3", "E">>
              ELSE <<c>>) \o set_query(Tail(query))

\* binance api.rs 46-72
http_path(api) == IF api = "Account" THEN "/api/v3/account" ELSE "/api/v3/myTrades"

sign_request_signature_first(secret, api, request) ==
    IF ~secret.some THEN Err("ApiKeysNotAvailable")
    ELSE LET signature == hex_hmac(secret.v, IF request.some THEN request.v ELSE <<>>)
         IN  Ok([path |-> http_path(api),
                 query |-> set_query(<<"signature=", signature>> \o
                                     (IF request.some THEN <<"&">> \o request.v
                                      ELSE <<>>))])

\* binance client.rs 68-91
sign_request(secret, api, request) ==
    IF ~secret.some THEN Err("ApiKeysNotAvailable")
    ELSE LET signature == hex_hmac(secret.v, IF request.some THEN request.v ELSE <<>>)
             request_body == IF request.some
                             THEN request.v \o <<"&signature=", signature>>
                             ELSE <<"signature=", signature>>
         IN  Ok([path |-> http_path(api), query |-> set_query(request_body)])

\* Option<String>::None.
NoRequest == [some |-> FALSE, v |-> <<>>]

\* The parameter strings build_signed_request and its callers make: names,
\* values, = and &.
ParameterStrings == Texts({"a", "1", "=", "&"}, MaxLen)

\* The url is built twice from the same secret and parameter string.
SignRequest ==
    /\ eval = NoEval
    /\ \E secret \in {None, Some("s1"), Some("s2")}, api \in {"Account", "MyTrades"},
          request \in {NoRequest} \cup {Some(p) : p \in ParameterStrings} :
         eval' = Applied("sign_request", <<secret, api, request>>,
                         <<sign_request(secret, api, request),
                           sign_request(secret, api, request)>>)
    /\ UNCHANGED clients

(***************************************************************************)
(* BinanceClient::send_req: the decision on one response.                  *)
(***************************************************************************)
\* The responses a send may bring: any used-weight header, with any status
\* and a body that decodes or does not.
Responses ==
    {Outcome("response", h, st, b) :
        h \in AcceptHeaders \cup ThrottleHeaders, st \in {200, 204, 418, 429, 500},
        b \in {BadBody, Body(TRUE, <<>>)}}

\* One iteration of the loop of send_req decides on a response.
DecideResponse ==
    /\ eval = NoEval
    /\ \E o \in Responses, api \in {"ExchangeInfo", "Account", "MyTrades"} :
         eval' = Applied("Decide", o, Decide(o, request_weight(api)))
    /\ UNCHANGED clients


\* The decoders are pure: each is applied once to any of its inputs.
DecodeInit ==
    /\ now = 0
    /\ auth = "None"
    /\ task = [c \in OneCaller |-> IdleTask]
    /\ cell = NoneCell
    /\ permit = NoCaller
    /\ hist = [c \in OneCaller |-> NoHist]
    /\ ghost = NoGhost
    /\ coinbase = from_builder(CoinbaseAuth("None", "", ""), FALSE)
    /\ eval = NoEval

DecodeNext ==
    \/ DecodeF64
    \/ DecodeU64
    \/ DecodeDepositTransaction
    \/ DecodeWithdrawalTransaction
    \/ DecodeTrade
    \/ DecodeMovement
    \/ DebugAuth
    \/ DebugClient
    \/ SignRequest
    \/ DecideResponse

DecodeSpec == DecodeInit /\ [][DecodeNext]_vars

(***************************************************************************)
(* The properties.  They are stated on what the server sent (the history)  *)
(* and on what the call did, with the arithmetic of the claims written out *)
(* here and not taken from the operators of the model.                     *)
(***************************************************************************)
DeclaredWeight == 20

\* The header holds a decimal number below 2^32.
IsU32(h) == h.kind = "digits" /\ h.hi <= Limb - 1

\* 6000 - used, 0 when used > 6000, with used = 0 for a header that is
\* absent or holds no u32.
BudgetLeft(h) ==
    IF IsU32(h) /\ (h.hi > 0 \/ h.lo > 6000) THEN 0
    ELSE IF IsU32(h) THEN 6000 - h.lo
    ELSE 6000

Decoded(c) == hist[c].outcome \in {"ok", "status", "decode"}
Throttled(c) == hist[c].outcome = "throttled"
InSendReq(c) == task[c].pc \in {"sending", "sleeping"}

\* C1: a response is accepted and handed to decoding if and only if
\* 6000 - used >= 20, with used the header's value (0 when absent or
\* unparseable, 6000 - used = 0 when used > 6000); a response with less
\* budget is never returned: the call sleeps.
C1_AcceptIffBudget ==
    \A c \in Callers :
        /\ Decoded(c) => BudgetLeft(hist[c].header) >= DeclaredWeight
        /\ Throttled(c) =>
             /\ BudgetLeft(hist[c].header) < DeclaredWeight
             /\ task[c].pc = "sleeping"
             /\ task[c].result = NoResult

C1_Witness ==
    \E c \in Callers :
        /\ hist[c].outcome = "ok"
        /\ hist[c].header = HDigits(0, 5980)
        /\ task[c].pc = "done"
        /\ task[c].result.kind = "ok"

\* C2: every wait was decided on the response to the latest send of the
\* same call: exactly one send precedes each sleep, the used weight of the
\* decision is that response's, nothing is kept while a send is in flight,
\* and the first attempt of a call is sent without a wait.
C2_NoStaleData ==
    \A c \in Callers :
        /\ task[c].pc = "sleeping" =>
             /\ hist[c].sinceSleep = 1
             /\ task[c].loc.used_weight =
                  (IF IsU32(hist[c].header)
                   THEN Num(hist[c].header.hi, hist[c].header.lo) ELSE Num(0, 0))
             /\ task[c].loc.available = BudgetLeft(hist[c].header)
        /\ task[c].pc = "sending" =>
             /\ hist[c].sinceSleep = 1
             /\ task[c].loc = NoLoc
             /\ hist[c].retries = 0 => ~hist[c].slept
        /\ task[c].pc = "idle" => task[c].loc = NoLoc /\ hist[c] = NoHist

C2_Witness ==
    \E c \in Callers :
        /\ task[c].pc = "sleeping"
        /\ hist[c].slept
        /\ hist[c].retries = 2
        /\ hist[c].header = HDigits(0, 5981)

\* C3: a throttled call computes deficit = 20 - available with
\* 1 <= deficit <= 20 and sleeps max(200, deficit * 60000 / 6000) ms; for
\* used = 5990 the values are available 10, deficit 10, sleep 200 ms.
C3_DeficitAndSleep ==
    \A c \in Callers :
        task[c].pc = "sleeping" =>
            LET l == task[c].loc IN
            /\ l.available = BudgetLeft(hist[c].header)
            /\ l.available < DeclaredWeight
            /\ l.deficit = DeclaredWeight - l.available
            /\ l.deficit >= 1 /\ l.deficit <= DeclaredWeight
            /\ l.sleep_ms = (IF l.deficit * 10 > 200 THEN l.deficit * 10 ELSE 200)
            /\ hist[c].header = HDigits(0, 5990) =>
                 l.available = 10 /\ l.deficit = 10 /\ l.sleep_ms = 200

C3_Witness ==
    \E c \in Callers :
        /\ task[c].pc = "sleeping"
        /\ hist[c].header = HDigits(0, 5990)
        /\ task[c].loc = Loc(Num(0, 5990), 10, 10, 200)

\* C4: every signed request that is sent carries the time of that send as
\* its timestamp, on the first attempt and on every retry, and so none
\* older than recvWindow.
C4_FreshTimestamp ==
    \A c \in Callers :
        (task[c].pc = "sending" /\ task[c].req.signed) =>
            /\ task[c].req.timestamp = hist[c].sentAt
            /\ now - task[c].req.timestamp <= DEFAULT_RECV_WINDOW

\* The last response to the call of c, if any, left the declared weight.
BudgetRestored(c) ==
    hist[c].header = NoHeader \/ BudgetLeft(hist[c].header) >= DeclaredWeight

\* C5: the loop has no retry bound and ends once the window has rolled
\* over: if from some point on every response leaves 6000 - used >= 20, a
\* call inside send_req eventually leaves it; a throttled call does not
\* return, it sleeps and then sends again, whatever the number of retries.
C5_EventuallyReturns ==
    /\ \A c \in 1..NumDispatchCallers :
         (<>[]BudgetRestored(c)) => [](InSendReq(c) => <>(~InSendReq(c)))
    /\ [][\A c \in 1..NumDispatchCallers :
            (task[c].pc = "sleeping" /\ task'[c] /= task[c]
               /\ task'[c].result /= Cancelled)
            => /\ task'[c].pc = "sending"
               /\ task'[c].req = task[c].req
               /\ hist'[c].retries = hist[c].retries]_vars
    /\ [](\A c \in 1..NumDispatchCallers :
            /\ task[c].pc = "sleeping" => ENABLED Wake(c)
            /\ Throttled(c) => (InSendReq(c) /\ task[c].result = NoResult))

C5_Witness ==
    \E c \in Callers :
        /\ task[c].pc = "sending"
        /\ hist[c].slept
        /\ hist[c].retries = MaxRetries

(***************************************************************************)
(* Errors and retries.                                                     *)
(***************************************************************************)
\* The last step of the call of c met a failure other than the rate limit.
Failed(c) ==
    hist[c].outcome \in
        {"clone_fail", "transport", "status", "decode", "api_error", "presend"}

AwaitsSend(c) == task[c].pc \in {"okx_sending", "bfx_sending", "cb_sending"}
SinglePage(c) == task[c].op \in {"deposit_history", "wallets"}
Paged(c) == task[c].op = "accounts"

\* C6: only the rate limit is retried.  A clone failure, a transport
\* failure, and a bad status or an undecodable body of an accepted response
\* end the Binance call with an error at once: a call sleeps only on a
\* throttled response and sends again only after that sleep.  An OKX, a
\* Bitfinex and a Coinbase call has one send per request or page: a send is
\* made at the start of the call or on a page that names a next page, and
\* every failure ends the call with an error.
C6_OnlyRateLimitRetried ==
    /\ [](\A c \in 1..NumDispatchCallers :
            /\ Failed(c) => (task[c].pc = "done" /\ task[c].result.kind = "err")
            /\ task[c].pc = "sleeping" => hist[c].outcome = "throttled"
            /\ AwaitsSend(c) => hist[c].nsent = hist[c].nresp + 1
            /\ (task[c].pc = "done" /\ (SinglePage(c) \/ Paged(c)))
                 => hist[c].nsent = hist[c].nresp
            /\ SinglePage(c) => hist[c].nsent <= 1
            /\ (Paged(c) /\ task[c].result.kind = "ok")
                 => Len(task[c].result.val) <= hist[c].nsent)
    /\ [][\A c \in 1..NumDispatchCallers :
            /\ (task'[c].pc = "sending" /\ task[c].pc /= "idle" /\ task'[c] /= task[c])
                 => (task[c].pc = "sleeping" /\ hist[c].outcome = "throttled")
            /\ task[c].pc = "done" => task'[c].pc \in {"done", "idle"}
            /\ (hist'[c].nsent /= hist[c].nsent /\ task[c].pc /= "idle"
                  /\ task'[c].pc /= "idle")
                 => /\ task[c].pc = "cb_sending"
                    /\ hist'[c].nsent = hist[c].nsent + 1
                    /\ hist'[c].nresp = hist[c].nresp + 1
                    /\ task'[c].result = NoResult]_vars

C6_Witness ==
    \E c \in Callers :
        /\ task[c].op = "get_account"
        /\ task[c].pc = "done"
        /\ task[c].result = Err("Reqwest:status")
        /\ hist[c].outcome = "status"
        /\ hist[c].header = HDigits(0, 5980)

(***************************************************************************)
(* The BTC-pair cache.                                                     *)
(***************************************************************************)
\* Caller c runs the closure of get_or_try_init: the exchange_info fetch
\* for the cache is in flight or waits to be sent again.
Computing(c) == task[c].ctx = "init" /\ task[c].pc \in {"sending", "sleeping"}

\* C7: at every instant at most one computation of the cached list is in
\* flight on the client.
C7_SingleFlight == Cardinality({c \in Callers : Computing(c)}) <= 1

C7_Witness ==
    \E c, d \in Callers :
        /\ c /= d
        /\ Computing(c)
        /\ task[d].pc = "cell_wait"
        /\ task[d].op = "trade_history"

\* C8 as stated: the list is computed at most once in total over the
\* lifetime of the client.
C8_ComputedOnce == ghost.computations <= 1

\* C8 as amended: at most one computation succeeds and every successful
\* call returns the same list; a computation is started only when every
\* earlier one has failed or was cancelled, and none once the value is set.
C8_OneSuccess ==
    /\ ghost.successes <= 1
    /\ Cardinality(ghost.returned) <= 1
    /\ ghost.computations <= ghost.failures + 1
    /\ (ghost.successes = 1) <=> cell.init
    /\ cell.init => (\A c \in Callers : ~Computing(c))

C8_Witness ==
    \E c, d \in Callers :
        /\ c /= d
        /\ task[c].op = "bitcoin_pairs" /\ task[c].result.kind = "ok"
        /\ task[d].op = "bitcoin_pairs" /\ task[d].result.kind = "ok"
        /\ task[c].result.val = task[d].result.val
        /\ ghost.computations = 1

IsBtcPair(sym) == sym.base_asset = "BTC" \/ sym.quote_asset = "BTC"

\* v holds exactly the BTC pairs of info, in the order of info.
BtcPairsInOrder(v, info) ==
    \E f \in [1..Len(v) -> 1..Len(info)] :
        /\ \A i, j \in 1..Len(v) : i < j => f[i] < f[j]
        /\ \A i \in 1..Len(v) : v[i] = info[f[i]]
        /\ \A j \in 1..Len(info) : IsBtcPair(info[j]) <=> \E i \in 1..Len(v) : f[i] = j

\* C9: once the cache holds a value it never changes and no computation
\* starts; every successful bitcoin_pairs call returns that list, which
\* holds exactly the symbols of the fetched exchange information whose base
\* or quote asset is BTC, in server order.
C9_ValueFixed ==
    /\ [](cell.init =>
              /\ BtcPairsInOrder(cell.val, ghost.fetched)
              /\ ghost.returned \subseteq {cell.val}
              /\ \A c \in Callers :
                   (task[c].op = "bitcoin_pairs" /\ task[c].result.kind = "ok")
                   => task[c].result.val = cell.val)
    /\ [](~cell.init => ghost.returned = {})
    /\ [][cell.init =>
            /\ cell' = cell
            /\ ghost'.computations = ghost.computations
            /\ ghost'.fetched = ghost.fetched
            /\ \A c \in 1..NumCallers : Computing(c)' = FALSE]_vars

C9_Witness ==
    /\ cell = SomeCell(<<ETHBTC, BTCUSDT>>)
    /\ ghost.fetched = <<ETHBTC, ETHUSDT, BTCUSDT>>
    /\ \E c \in Callers :
         /\ task[c].op = "bitcoin_pairs"
         /\ task[c].result = Ok(<<ETHBTC, BTCUSDT>>)
         /\ hist[c].outcome = "none"

\* C10: a cancelled call leaves nothing behind: its frame and its permit
\* are gone, the cache is empty or complete, a held permit always belongs
\* to a caller that is computing, and a waiter of a free or filled cell can
\* proceed.
C10_CancelLeavesNoPartialState ==
    /\ permit /= NoCaller => (~cell.init /\ Computing(permit))
    /\ \A c \in Callers :
         /\ (task[c].result = Cancelled) =>
              /\ permit /= c
              /\ task[c] = Done(task[c], Cancelled)
         /\ (task[c].pc = "cell_wait" /\ (cell.init \/ permit = NoCaller))
              => ENABLED CellWake(c, CacheEnv)
         /\ (task[c].pc = "cell_wait" /\ ~cell.init /\ permit /= NoCaller)
              => (ENABLED Respond(permit, CacheEnv) \/ ENABLED Wake(permit))

C10_Witness ==
    \E c, d \in Callers :
        /\ c /= d
        /\ hist[c].outcome = "cancelled_computing"
        /\ task[c].result = Cancelled
        /\ task[d].result.kind = "ok"
        /\ cell.init
        /\ ghost.computations = 2

(***************************************************************************)
(* The Coinbase client.                                                    *)
(***************************************************************************)
PagedCall(c) == task[c].op \in {"accounts", "transactions"}
NamesNext(page) == page.pagination /\ page.next_uri /= NoUri

\* The records of the pages ps, page after page.
RECURSIVE Concatenation(_)
Concatenation(ps) ==
    IF ps = <<>> THEN <<>> ELSE Head(ps).data \o Concatenation(Tail(ps))

\* C11: a successful accounts or transactions call returns the records of
\* the pages it received, page after page in the order received and in the
\* order inside each page; every page but the last named a next page and
\* the last page has no pagination or no next_uri.  While the call runs it
\* holds the records of the pages received so far.
C11_PagesConcatenated ==
    \A c \in Callers :
        PagedCall(c) =>
            LET ps == hist[c].pages IN
            /\ (task[c].pc = "done" /\ task[c].result.kind = "ok") =>
                 /\ Len(ps) >= 1
                 /\ task[c].result.val = Concatenation(ps)
                 /\ \A k \in 1..(Len(ps) - 1) : NamesNext(ps[k])
                 /\ ~NamesNext(ps[Len(ps)])
            /\ task[c].pc = "cb_sending" =>
                 /\ task[c].output = Concatenation(ps)
                 /\ \A k \in 1..Len(ps) : NamesNext(ps[k])

C11_Witness ==
    \E c \in Callers :
        /\ task[c].op = "transactions"
        /\ task[c].pc = "done"
        /\ task[c].result = Ok(<<"r1", "r2", "r2">>)
        /\ Len(hist[c].pages) = 2
        /\ ~hist[c].pages[2].pagination

\* C12: the request for the page after a page that names a next_uri asks
\* for the resource of that next_uri: its path, and every parameter of its
\* query, the cursor among them.
C12_NextCursorRequested ==
    \A c \in Callers :
        (task[c].pc = "cb_sending" /\ hist[c].pages /= <<>>) =>
            LET next == hist[c].pages[Len(hist[c].pages)].next_uri IN
            /\ task[c].url.path = next.path
            /\ next.query \subseteq task[c].url.query

CoinbaseCall(c) == task[c].op \in {"accounts", "account", "transactions"}

\* C13: with no credential an operation that needs one sends nothing and
\* ends with a typed error: on the Binance client no signed request is sent
\* and get_account ends with ApiKeysNotAvailable; on the Coinbase client
\* accounts, account and transactions send no request and end with an error.
C13_NoCredentialsNoRequest ==
    \A c \in Callers :
        /\ auth = "None" =>
             /\ ~(task[c].req.signed /\ task[c].pc \in {"sending", "sleeping"})
             /\ (task[c].op = "get_account" /\ task[c].pc = "done")
                  => task[c].result = Err("ApiKeysNotAvailable")
        /\ (coinbase.auth.kind = "None" /\ CoinbaseCall(c)) =>
             /\ hist[c].nsent = 0
             /\ task[c].pc = "done"
             /\ task[c].result.kind = "err"

\* The key is a valid PKCS#8 PEM or a valid SEC1 PEM.
ValidKey(key) == key \in {"pkcs8", "pkcs8_reformatted", "sec1"}
MalformedKey == coinbase.auth.kind = "ApiKeys" /\ ~ValidKey(coinbase.auth.secret_key)

\* C14 as stated: with a malformed private key, sandbox or not, the build
\* ends with InvalidPrivateKey and no request is sent without a token.
C14_FailsClosedAnyMode ==
    MalformedKey =>
        /\ coinbase.client = Err("InvalidPrivateKey")
        /\ \A c \in Callers : task[c].pc = "cb_sending" => task[c].token.kind = "jwt"

\* C14 as amended: outside sandbox mode a malformed private key ends the
\* build with InvalidPrivateKey, so that no client exists and nothing is
\* ever sent for that credential; in sandbox mode the key is not examined,
\* the client is built with the JWT generator disabled and its requests
\* carry no token.
C14_FailsClosedOutsideSandbox ==
    /\ (MalformedKey /\ ~coinbase.sandbox) =>
         /\ coinbase.client = Err("InvalidPrivateKey")
         /\ \A c \in Callers : task[c] = IdleTask /\ hist[c] = NoHist
    /\ (MalformedKey /\ coinbase.sandbox) =>
         /\ coinbase.client.kind = "ok"
         /\ ~coinbase.client.val.jwt.enabled
         /\ \A c \in Callers : task[c].token = NoToken
    /\ coinbase.client.kind = "err" => coinbase.client = Err("InvalidPrivateKey")

C14_Witness ==
    /\ MalformedKey
    /\ ~coinbase.sandbox
    /\ coinbase.client = Err("InvalidPrivateKey")
    /\ ~ENABLED CoinbaseNext

\* C15: a client built with sandbox = true attaches no token to any
\* request, whatever its credential; a client built with sandbox = false
\* and ApiKeys attaches to every request, the request of every page
\* included, a token made for that request: subject the API key, URI the
\* method, host and path of the request, not-before the time of the send,
\* and the nonce drawn for that request.
C15_BearerPerRequest ==
    /\ [](\A c \in OneCaller :
            task[c].pc = "cb_sending" =>
                /\ coinbase.sandbox => task[c].token = NoToken
                /\ (~coinbase.sandbox /\ coinbase.auth.kind = "ApiKeys") =>
                     /\ task[c].token.kind = "jwt"
                     /\ task[c].token.sub = coinbase.auth.api_key
                     /\ task[c].token.uri = <<"GET", "api.coinbase.com", task[c].url.path>>
                     /\ task[c].token.nbf = hist[c].sentAt
                     /\ task[c].token.nonce = hist[c].nsent)
    /\ [][\A c \in OneCaller :
            (task'[c].pc = "cb_sending" /\ hist'[c].nsent /= hist[c].nsent
               /\ ~coinbase.sandbox /\ coinbase.auth.kind = "ApiKeys")
            => task'[c].token /= task[c].token]_vars

C15_Witness ==
    \E c \in Callers :
        /\ ~coinbase.sandbox
        /\ coinbase.auth.kind = "ApiKeys"
        /\ task[c].pc = "cb_sending"
        /\ hist[c].nsent = 2
        /\ task[c].token.kind = "jwt"
        /\ task[c].token.nonce = 2


(***************************************************************************)
(* C16: an HTTP-200 answer of OKX whose envelope code is not "0" is       *)
(* Err(OkxApiError) with the envelope's code and msg, never Ok; its       *)
(* detail is the sMsg of the first element when data parses as a list of  *)
(* error records and that element has an sMsg, "Unknown error" when the   *)
(* list is empty or its first element has no sMsg, and "Failed to parse   *)
(* error message" when data does not parse as such a list.  With code "0" *)
(* the result is the decoded data or a decode error.                      *)
(***************************************************************************)
IsErrorList(data) ==
    data.list /\ \A i \in 1..Len(data.elems) : data.elems[i].record

ErrorDetail(data) ==
    IF ~IsErrorList(data) THEN "Failed to parse error message"
    ELSE IF data.elems = <<>> \/ ~data.elems[1].s_msg.some THEN "Unknown error"
    ELSE data.elems[1].s_msg.v

OkxAnswered(c) ==
    /\ task[c].pc = "done"
    /\ task[c].op = "deposit_history"
    /\ hist[c].nresp = 1
    /\ hist[c].status = 200
    /\ hist[c].envelope.ok

C16_EnvelopeErrorSurfaced ==
    \A c \in DOMAIN task :
        OkxAnswered(c) =>
            LET e == hist[c].envelope
                r == task[c].result
            IN  /\ (e.code /= "0") =>
                       (r = OkxApiError(e.code, e.msg, ErrorDetail(e.data)))
                /\ (e.code = "0" /\ e.data.decodes) => (r = Ok(e.data.elems))
                /\ (e.code = "0" /\ ~e.data.decodes) => (r = Err("Json"))

C16_Witness ==
    \E c \in DOMAIN task :
        /\ OkxAnswered(c)
        /\ hist[c].envelope.code = "51000"
        /\ Len(hist[c].envelope.data.elems) = 2
        /\ ~IsErrorList(hist[c].envelope.data)
        /\ hist[c].envelope.data.elems[1].s_msg.some
        /\ task[c].result =
               OkxApiError("51000", "All operations failed", "Failed to parse error message")

(***************************************************************************)
(* C17: decoding the state of an OKX DepositTransaction or                 *)
(* WithdrawalTransaction never fails the record: a known code (for         *)
(* WithdrawalStatus the aliases "4", "5", "6", "8", "9", "12" of           *)
(* WaitingManualReview included) gives Some(variant), and a state that is  *)
(* missing, null or unrecognised, such as "999", gives None.               *)
(***************************************************************************)
ManualReviewCodes == {<<"4">>, <<"5">>, <<"6">>, <<"8">>, <<"9">>, <<"1", "2">>}

DecodesTransaction == eval.fn \in {"DepositTransaction", "WithdrawalTransaction"}

StatusCodes == IF eval.fn = "DepositTransaction" THEN DepositStatus ELSE WithdrawalStatus

KnownState(field) ==
    field.present /\ field.json.t = "string" /\ field.json.s \in DOMAIN StatusCodes

\* The same object without its key state.
WithoutState ==
    IF eval.fn = "DepositTransaction"
    THEN DepositTransaction([eval.input EXCEPT !.state = Absent])
    ELSE WithdrawalTransaction([eval.input EXCEPT !.state = Absent])

C17_StateNeverFailsRecord ==
    DecodesTransaction =>
        LET state == eval.input.state
        IN  /\ eval.value.kind = WithoutState.kind
            /\ (eval.value.kind = "ok") =>
                   /\ KnownState(state) =>
                          (eval.value.val.state = Some(StatusCodes[state.json.s]))
                   /\ ~KnownState(state) => (eval.value.val.state = None)
                   /\ (/\ eval.fn = "WithdrawalTransaction"
                       /\ state.present /\ state.json.t = "string"
                       /\ state.json.s \in ManualReviewCodes) =>
                          (eval.value.val.state = Some("WaitingManualReview"))
                   /\ (state = Present(JString(<<"9", "9", "9">>))) =>
                          (eval.value.val.state = None)

C17_Witness ==
    /\ eval.fn = "DepositTransaction"
    /\ eval.input.state = Present(JString(<<"9", "9", "9">>))
    /\ eval.value.kind = "ok"
    /\ eval.value.val.state = None
    /\ eval.value.val.timestamp = Timestamp

(***************************************************************************)
(* C18: Bitfinex rows are decoded by position.  A Trade takes its fields   *)
(* from slots 0..11 in that order, is_maker is true exactly when slot 8 is *)
(* 1 (-1 and 0 give false) and cid is absent when slot 11 is null.  A      *)
(* Movement takes its fields from slots 0, 1, 2, 5, 6, 9, 12, 13, 16, 17,  *)
(* 20, 21, and neither its value nor its success depends on what the       *)
(* placeholder slots 3, 4, 7, 8, 10, 11, 14, 15, 18, 19 hold.              *)
(***************************************************************************)
\* Slot n of the source is element n + 1 of the sequence.
Slot(arr, n) == arr[n + 1]
Integer(json) == Canonical(json.s)
Number(json) == from_str_f64(json.s).val
Optional(json, v) == IF json = JNull THEN None ELSE Some(v)

PlaceholderSlots == {3, 4, 7, 8, 10, 11, 14, 15, 18, 19}

\* The array with null in every placeholder slot.
WithoutPlaceholders(arr) ==
    [i \in 1..Len(arr) |-> IF (i - 1) \in PlaceholderSlots THEN JNull ELSE arr[i]]

C18_PositionalDecoding ==
    /\ (eval.fn = "Trade" /\ eval.value.kind = "ok") =>
           LET arr == eval.input
               t == eval.value.val
           IN  /\ t.id = Integer(Slot(arr, 0))
               /\ t.symbol = Slot(arr, 1).s
               /\ t.timestamp = Integer(Slot(arr, 2))
               /\ t.order_id = Integer(Slot(arr, 3))
               /\ t.amount = Number(Slot(arr, 4))
               /\ t.price = Number(Slot(arr, 5))
               /\ t.order_type = Slot(arr, 6).s
               /\ t.order_price = Number(Slot(arr, 7))
               /\ t.is_maker = (Slot(arr, 8).s = <<"1">>)
               /\ (Slot(arr, 8).s \in {<<"-", "1">>, <<"0">>}) => ~t.is_maker
               /\ t.fee = Number(Slot(arr, 9))
               /\ t.fee_currency = Slot(arr, 10).s
               /\ t.cid = Optional(Slot(arr, 11), Integer(Slot(arr, 11)))
    /\ (eval.fn = "Movement") =>
           LET arr == eval.input
               m == eval.value.val
           IN  /\ eval.value = Movement(WithoutPlaceholders(arr))
               /\ (eval.value.kind = "ok") =>
                      /\ m.id = Integer(Slot(arr, 0))
                      /\ m.currency = Slot(arr, 1).s
                      /\ m.currency_name = Slot(arr, 2).s
                      /\ m.mts_started = Integer(Slot(arr, 5))
                      /\ m.mts_updated = Integer(Slot(arr, 6))
                      /\ m.status = Slot(arr, 9).s
                      /\ m.amount = Number(Slot(arr, 12))
                      /\ m.fees = Number(Slot(arr, 13))
                      /\ m.destination_address = Slot(arr, 16).s
                      /\ m.payment_id = Optional(Slot(arr, 17), Slot(arr, 17).s)
                      /\ m.transaction_id = Slot(arr, 20).s
                      /\ m.withdraw_transaction_note =
                             Optional(Slot(arr, 21), Slot(arr, 21).s)

C18_Witness ==
    /\ eval.fn = "Trade"
    /\ eval.value.kind = "ok"
    /\ Slot(eval.input, 8) = JNumber(<<"1">>)
    /\ Slot(eval.input, 11) = JNull
    /\ eval.value.val.is_maker
    /\ eval.value.val.cid = None

(***************************************************************************)
(* C19: deserialize_string_to_f64 accepts a JSON value exactly when it is  *)
(* a string that denotes a number, and then gives that number              *)
(* ("4723846.89208129" gives 4723846.89208129); a string that denotes no   *)
(* number and every JSON value that is no string is a decode error, and no *)
(* default value takes its place.                                          *)
(***************************************************************************)
Unsigned(s) == IF s /= <<>> /\ s[1] \in {"+", "-"} THEN Tail(s) ELSE s

\* A decimal numeral: an optional sign, digits with an optional point, an
\* optional exponent.
Numeric(s) == Unsigned(s) /= <<>> /\ parse_number(Unsigned(s), FALSE).kind = "ok"

C19_OnlyNumericStringsAccepted ==
    (eval.fn = "deserialize_string_to_f64") =>
        /\ (eval.value.kind = "ok") <=> (eval.input.t = "string" /\ Numeric(eval.input.s))
        /\ (eval.value.kind = "ok") => (eval.value.val.class = "finite")
        /\ (eval.input = JString(Amount)) =>
               (eval.value =
                    Ok(Float("finite", FALSE,
                             <<"4", "7", "2", "3", "8", "4", "6", "8", "9", "2", "0", "8",
                               "1", "2", "9">>, 0 - 8)))

(***************************************************************************)
(* C20: deserialize_string_or_number_to_u64 is uniform: for every n in     *)
(* 0..2^64 - 1 the JSON integer n and the JSON string of the decimal       *)
(* digits of n both give n; a string that is not the decimal form of a     *)
(* u64 is a decode error.                                                  *)
(***************************************************************************)
DecodesU64 == eval.fn = "deserialize_string_or_number_to_u64"

\* The decimal form of a u64: its digits, without sign or leading zeros,
\* of a value up to 2^64 - 1.
DecimalU64(s) == s /= <<>> /\ AllDigits(s) /\ Canonical(s) = s /\ DecLeq(s, U64_MAX)

\* The integer and the string of the digits of n both give n.
Uniform ==
    (/\ eval.input.t \in {"string", "number"}
     /\ DecimalU64(eval.input.s)) => (eval.value = Ok(eval.input.s))

\* As first stated: every other string is an error.
C20_OnlyDecimalFormAccepted ==
    DecodesU64 =>
        /\ Uniform
        /\ (eval.input.t = "string" /\ ~DecimalU64(eval.input.s)) =>
               (eval.value.kind = "err")

\* The texts u64::from_str takes: an optional +, then digits, leading
\* zeros allowed, of a value up to 2^64 - 1.
LenientU64(s) ==
    LET digits == IF s /= <<>> /\ s[1] = "+" THEN Tail(s) ELSE s
    IN  digits /= <<>> /\ AllDigits(digits) /\ DecLeq(Canonical(digits), U64_MAX)

\* C20 as amended: uniform over 0..2^64 - 1; a string is accepted exactly
\* when it is an optional + followed by decimal digits of a value up to
\* 2^64 - 1, and gives that value; every other string is a decode error.
C20_UniformAndLenient ==
    DecodesU64 =>
        /\ Uniform
        /\ (eval.input.t = "string") =>
               /\ (eval.value.kind = "ok") <=> LenientU64(eval.input.s)
               /\ (eval.value.kind = "ok") =>
                      (eval.value.val = Canonical(Unsigned(eval.input.s)))
        /\ (eval.input.t = "number") =>
               ((eval.value.kind = "ok") <=> DecimalU64(eval.input.s))
        /\ (eval.input.t \notin {"string", "number"}) => (eval.value.kind = "err")

C20_Witness ==
    /\ DecodesU64
    /\ eval.input = JString(<<"+">> \o U64_MAX)
    /\ eval.value = Ok(U64_MAX)

(***************************************************************************)
(* C21: the Debug output of a credential redacts every secret field: any   *)
(* two values of one credential type, whatever keys, secrets or passphrase *)
(* they hold, have the same Debug output.                                  *)
(***************************************************************************)
C21_CredentialDebugRedacted ==
    (eval.fn = "fmt_auth") => (eval.value[1] = eval.value[2])

C21_Witness ==
    /\ eval.fn = "fmt_auth"
    /\ eval.input[1].type = "OkxApiCredentials"
    /\ eval.input[1].api_key /= eval.input[2].api_key
    /\ eval.input[1].secret /= eval.input[2].secret
    /\ eval.input[1].passphrase /= eval.input[2].passphrase
    /\ eval.value = <<(<<"OkxApiCredentials">>), (<<"OkxApiCredentials">>)>>

(***************************************************************************)
(* C22: the bfx-nonce is strictly increasing per credential: a request a   *)
(* BitfinexClient builds while an earlier request of the same client is in *)
(* flight carries a nonce strictly greater than that of the earlier one,   *)
(* so no two requests carry the same nonce.                                *)
(***************************************************************************)
C22_NonceStrictlyIncreasing ==
    [][\A c, d \in TwoCallers :
          (/\ c /= d
           /\ task[d].pc = "bfx_sending"
           /\ task[c].pc = "idle"
           /\ task'[c].pc = "bfx_sending")
          => ~DecLeq(task'[c].wire.stamp, task[d].wire.stamp)]_vars

(***************************************************************************)
(* C23: in a header-signed request the values the server recomputes the    *)
(* signature from are the ones signed.  For OKX the OK-ACCESS-TIMESTAMP    *)
(* header is the formatted instant of the call and the text signed is that *)
(* header, the method, the path with its query and the body of the request *)
(* sent; for Bitfinex the text signed is "/api/v2/auth/r/", the path of    *)
(* the request sent, the bfx-nonce header and the body.                    *)
(***************************************************************************)
C23_SignedValuesAreSent ==
    \A c \in TwoCallers :
        LET w == task[c].wire
        IN  /\ (task[c].pc = "okx_sending") =>
                  /\ w.stamp = format_timestamp(task[c].req.timestamp)
                  /\ w.signed = w.stamp \o <<w.method>> \o w.path \o w.body
            /\ (task[c].pc = "bfx_sending") =>
                  /\ w.stamp = to_string(task[c].req.timestamp)
                  /\ w.signed = API_SIGNATURE_PATH \o w.path \o w.stamp \o w.body

C23_Witness ==
    /\ task[1].pc = "okx_sending"
    /\ task[1].wire.stamp = <<"0", ".", "0", "0", "2", "Z">>
    /\ task[1].wire.path = <<"/api/v5/trade/fills-history", "?instType=", "SPOT">>
    /\ task[2].pc = "bfx_sending"
    /\ task[2].wire.stamp = <<"3">>
    /\ task[2].wire.signed = <<"/api/v2/auth/r/", "/v2/auth/r/wallets", "3">>

\* The symbols of a list of trades, in its order.
SymbolsOf(list) ==
    [i \in DOMAIN list |-> IF "symbol" \in DOMAIN list[i]
                           THEN list[i].symbol ELSE list[i].instrument_id]

\* The sub-sequence of the texts that begin with prefix or end with suffix.
RECURSIVE PrefixOrSuffix(_, _, _)
PrefixOrSuffix(texts, prefix, suffix) ==
    IF texts = <<>> THEN <<>>
    ELSE (IF starts_with(Head(texts), prefix) \/ ends_with(Head(texts), suffix)
          THEN <<Head(texts)>> ELSE <<>>) \o PrefixOrSuffix(Tail(texts), prefix, suffix)

(***************************************************************************)
(* C26: client-side filtering keeps exactly the records whose symbol has   *)
(* the ticker as a prefix or a suffix, in the order of the server:         *)
(* OkxClient::trade_history returns the fills whose instrument id begins   *)
(* or ends with "BTC", BitfinexClient::trades the trades whose symbol      *)
(* begins with "tBTC" or ends with "BTC".                                  *)
(***************************************************************************)
C26_FilterByPrefixOrSuffix ==
    \A c \in TwoCallers :
        (task[c].pc = "done" /\ task[c].result.kind = "ok") =>
            /\ (task[c].op = "okx_trade_history") =>
                  SymbolsOf(task[c].result.val) =
                      PrefixOrSuffix(SymbolsOf(hist[c].pages[1]),
                                     <<"B", "T", "C">>, <<"B", "T", "C">>)
            /\ (task[c].op = "trades") =>
                  SymbolsOf(task[c].result.val) =
                      PrefixOrSuffix(SymbolsOf(hist[c].pages[1]),
                                     <<"t", "B", "T", "C">>, <<"B", "T", "C">>)

\* The part of C26 on BitfinexClient::trades alone.
C26_BitfinexOnly ==
    \A c \in TwoCallers :
        (task[c].pc = "done" /\ task[c].result.kind = "ok" /\ task[c].op = "trades") =>
            SymbolsOf(task[c].result.val) =
                PrefixOrSuffix(SymbolsOf(hist[c].pages[1]),
                               <<"t", "B", "T", "C">>, <<"B", "T", "C">>)

ExpectedMap(pairs, returned) ==
    {[symbol |-> pairs[k].symbol, trades |-> returned[k]] :
        k \in {i \in DOMAIN pairs : \A j \in DOMAIN pairs :
                                       pairs[j].symbol = pairs[i].symbol => j <= i}}

EntriesOf(map) == {[symbol |-> map[k].pair.symbol, trades |-> map[k].trades] : k \in DOMAIN map}

(***************************************************************************)
(* C25: BinanceClient::trade_history takes the BTC pairs from the cache    *)
(* (no exchange_info is fetched once a fetch has succeeded), makes one     *)
(* myTrades call per pair of that list, each after the answer to the one   *)
(* before, and on success returns a map with exactly one entry per         *)
(* distinct pair symbol, holding the trades returned for that pair; when a *)
(* call fails it returns that error and no partial map.                    *)
(***************************************************************************)
C25_OneCallPerPair ==
    \A c \in OneCaller :
        LET t == task[c]
            h == hist[c]
        IN  /\ ghost.successes <= 1
            /\ (t.pc = "sending" /\ t.req.api = "ExchangeInfo") => ~cell.init
            /\ (t.op = "trade_history" /\ t.pc = "sending" /\ t.ctx = "trades") =>
                  /\ cell.init /\ t.btc_pairs = cell.val
                  /\ t.req.api = "MyTrades"
                  /\ t.idx \in 1..Len(cell.val)
                  /\ Len(h.pages) = t.idx - 1
            /\ (t.op = "trade_history" /\ t.pc = "done" /\ t.result.kind = "ok") =>
                  /\ Len(h.pages) = Len(cell.val)
                  /\ EntriesOf(t.result.val) = ExpectedMap(cell.val, h.pages)
                  /\ \A i, j \in DOMAIN t.result.val :
                        t.result.val[i].pair.symbol = t.result.val[j].pair.symbol => i = j
            /\ (t.op = "trade_history" /\ t.pc = "done" /\ t.result.kind = "err") =>
                  t.result.val = <<>>

C25_Witness ==
    /\ task[1].op = "trade_history"
    /\ task[1].pc = "done"
    /\ cell.val = <<ETHBTC, ETHBTC>>
    /\ hist[1].pages = <<(<<"trade1">>), (<<"trade2">>)>>
    /\ task[1].result = Ok(<<[pair |-> ETHBTC, trades |-> <<"trade2">>]>>)

(***************************************************************************)
(* C27: in send_req the decision to retry depends on the used-weight       *)
(* header alone, never on the status or the body.  A response that leaves  *)
(* budget for the request (the header absent or unreadable included) is    *)
(* surfaced at once whatever its status: a 429 or 418 is returned as an    *)
(* error and no wait is computed.  A response that leaves too little is    *)
(* discarded and a wait is computed, a 2xx with a valid body included.     *)
(***************************************************************************)
C27_RetryOnHeaderOnly ==
    (eval.fn = "Decide") =>
        LET o == eval.input
            d == eval.value
        IN  /\ d.accepted <=> (BudgetLeft(o.header) >= DeclaredWeight)
            /\ d.accepted =>
                  /\ d.loc = NoLoc
                  /\ d.result = (IF ~(o.status \in 200..299) THEN Err("Reqwest:status")
                                 ELSE IF ~o.body.ok THEN Err("Reqwest:decode")
                                 ELSE Ok(o.body.val))
            /\ ~d.accepted =>
                  /\ d.result = NoResult
                  /\ d.loc.sleep_ms >= MIN_SLEEP_MS

C27_Witness ==
    /\ eval.fn = "Decide"
    /\ eval.input.status = 200
    /\ eval.input.body.ok
    /\ eval.input.header = HDigits(0, 5981)
    /\ ~eval.value.accepted
    /\ eval.value.loc.sleep_ms = 200

(***************************************************************************)
(* C28: a failed computation of the BTC-pair cache is never stored.  When  *)
(* the exchange_info fetch of the caller that runs the computation fails,  *)
(* that caller alone gets the error, the cache stays empty and the permit  *)
(* is free; a caller that waited, or that comes later, then runs a         *)
(* computation of its own.  The cache of a clone made while the cache was  *)
(* empty stays empty when the cache of the client is filled.               *)
(***************************************************************************)
C28_FailureNotCached ==
    /\ [][\A c \in Callers :
            /\ (Computing(c) /\ task'[c].pc = "done" /\ task'[c].result.kind = "err") =>
                  /\ ~cell'.init
                  /\ permit' = NoCaller
                  /\ \A d \in Callers \ {c} : task'[d] = task[d]
            /\ (~cell.init /\ task[c].pc \in {"idle", "cell_wait"}
                  /\ task'[c].pc \notin {"idle", "cell_wait"}) =>
                  /\ permit = NoCaller
                  /\ Computing(c)'
                  /\ ghost'.computations = Sat(ghost.computations, MaxRetries)]_vars
    /\ []((ghost.clone.made /\ ~ghost.clone.cell.init) => ~bitcoin_pairs_of_clone.init)

C28_Witness ==
    \E c, d \in Callers :
        /\ task[c].op = "bitcoin_pairs" /\ task[c].result = Err("Reqwest:status")
        /\ task[d].op = "bitcoin_pairs" /\ task[d].result = Ok(<<ETHBTC>>)
        /\ ghost.computations = 2
        /\ ghost.failures = 1
        /\ cell = SomeCell(<<ETHBTC>>)
        /\ ghost.clone.made
        /\ bitcoin_pairs_of_clone = NoneCell

(***************************************************************************)
(* C29: the Debug output of a client that holds a credential does not      *)
(* depend on the credential: two clients that differ only in API key,      *)
(* secret key or passphrase have the same Debug output.                    *)
(***************************************************************************)
C29_ClientDebugRedacted ==
    (/\ eval.fn = "fmt_client"
     /\ eval.input[1].variant = eval.input[2].variant) => (eval.value[1] = eval.value[2])

\* C30: on a server whose chain of next cursors is finite, an accounts or
\* transactions call whose requests all succeed returns after the last
\* page: it sends one request per page of the chain, and its successful
\* return follows the receipt of every page of the chain.
C30_FiniteChainReturns ==
    \A c \in Callers :
        PagedCall(c) =>
            /\ hist[c].nsent <= ghost.chain
            /\ (task[c].pc = "done" /\ task[c].result.kind = "ok")
                 => hist[c].nresp = ghost.chain

\* The loop leaves only on a page without next_uri or on a failure, and a
\* failure returns the error alone.
C30_LeavesOnLastPageOrFailure ==
    \A c \in Callers :
        (PagedCall(c) /\ task[c].pc = "done" /\ hist[c].nsent > 0) =>
            \/ /\ task[c].result.kind = "ok"
               /\ ~NamesNext(hist[c].pages[Len(hist[c].pages)])
            \/ /\ task[c].result.kind = "err"
               /\ task[c].output = <<>>

========================================================================
